---------------------------- MODULE Spec2Model ----------------------------
(***************************************************************************)
(* A model of krnl's host/device runtime: the raw and typed buffer layer   *)
(* (src/src/buffer.rs), the kernel-side slices (src/krnl-core/src/         *)
(* buffer.rs), the kernel builder and dispatch (src/crates/krnl/src/       *)
(* device.rs), the dispatch builder (src/src/kernel.rs) and the device     *)
(* engine behind the DeviceEngine traits.  The engine's implementation     *)
(* (vulkan_engine), rspirv and krnl-core's raw_module are not among the    *)
(* sources; those parts of this model follow spec.md sections 4 and 5.     *)
(*                                                                         *)
(* Each component has its own specification over the shared variables:     *)
(*   SpecBuffer      from_vec / into_device / to_device_mut / into_vec,    *)
(*                   host slices, split_at, same-device conversions,       *)
(*                   into_buffer                                           *)
(*   SpecCache       KernelBuilder::build and the pipeline cache           *)
(*   SpecQueue       submissions, fences, wait and device loss             *)
(*   SpecIndex       indexing inside a kernel                              *)
(*   SpecDispatch    Kernel::groups / global_threads / dispatch            *)
(*   SpecSpecialize  KernelBuilder::specialize, once and again             *)
(*   SpecDownload    downloads of a device buffer and its handles          *)
(*   SpecOwn         host allocations from from_vec / alloc to their drop  *)
(*   SpecRange       KernelDesc::push_consts_range                         *)
(*   SpecKey         the cache key of specialized builders                 *)
(*   SpecSpirv       KernelDesc::specialize and the SPIR-V it returns      *)
(*   SpecBuild       DispatchBuilder::build_unsafe                         *)
(***************************************************************************)
EXTENDS Integers, Sequences, FiniteSets, TLC

VARIABLES
    debug,      \* build configuration: TRUE when debug assertions are compiled in
    bpc,        \* buffer pipeline: position of the host program
    bin,        \* buffer pipeline: the inputs (element type, vector, device, split point)
    bbuf,       \* buffer pipeline: the typed buffer currently held (a Result)
    bout,       \* buffer pipeline: the result of the last operation
    bpath,      \* buffer pipeline: the operations applied so far
    bfut,       \* buffer pipeline: the future of a to_device_mut call not yet completed
    cache,      \* pipeline cache of each engine: a set of [key, pipeline]
    building,   \* keys of each engine whose build is in flight
    buildlog,   \* every run of desc_fn and the pipeline build: [engine, key, pipeline]
    tpc,        \* each host thread's position inside KernelBuilder::build
    treq,       \* each host thread's current request
    tres,       \* each host thread's result
    returns,    \* every [engine, key, pipeline, how] that cached has returned
    ncalls,     \* number of build calls made so far
    qengine,    \* the engine whose queues are followed
    qstream,    \* per queue: the fence values of the commands not yet run
    qissued,    \* per queue: the fence value of every submission, in order
    qcompleted, \* per queue: the completed fence
    qexecuted,  \* per queue: the fence values whose command has run, in order
    lost,       \* the engine has reported DeviceLost
    lossSnap,   \* the handles outstanding when the engine was lost
    lastcall,   \* the last engine operation called and what it returned
    wpc,        \* the position of the thread calling Device::wait
    wreq,       \* the wait call: its device and the handles returned before it
    wres,       \* the wait call's result
    ipc,        \* indexing: position of the kernel thread
    iin,        \* indexing: the slice, the operation and the index
    iout,       \* indexing: what the operation returned
    iacc,       \* indexing: the positions of the binding the operation touched
    dpc,        \* dispatch: position of the host program
    din,        \* dispatch: the arguments the program dispatches with
    dkernel,    \* dispatch: the Kernel the program holds
    dout,       \* dispatch: what Kernel::dispatch returned
    dsub,       \* dispatch: per engine, the dispatches handed to it
    spc,        \* specialize: position of the host program
    sin,        \* specialize: the blob and the values of each specialize call
    sold,       \* specialize: the builder the last call was made on
    sout,       \* specialize: what the last call returned
    xusers,     \* download: the handles to the device buffer the user holds
    xrc,        \* download: the strong count of the device buffer
    xdl,        \* download: per download, the state of its engine command
    xfut,       \* download: per download, the state of its future
    xmem,       \* download: the state of the device buffer's memory
    xcopied,    \* download: per download, what its copy read
    xholder,    \* download: what keeps the reference a download was given
    opc,        \* ownership: position of the host program
    oin,        \* ownership: the element type and the vector the program starts from
    obuf,       \* ownership: the raw buffer the program holds, if any
    ocopy,      \* ownership: the raw buffer to_raw_buffer returned, if held
    oviews,     \* ownership: the slices of the buffer the program holds
    ovec,       \* ownership: the Vec into_vec returned, if held
    oallocs,    \* ownership: every host allocation made, as it was made
    ofreed,     \* ownership: every release of a host allocation, in order
    cpc,        \* calls: position of the program calling a function of the descriptor
    cin,        \* calls: the arguments
    cout        \* calls: what each call returned, in order

bufferVars == <<bpc, bin, bbuf, bout, bpath, bfut>>
cacheVars == <<cache, building, buildlog, tpc, treq, tres, returns, ncalls>>

queueVars ==
    <<qengine, qstream, qissued, qcompleted, qexecuted, lost, lossSnap, lastcall,
      wpc, wreq, wres>>

indexVars == <<ipc, iin, iout, iacc>>

dispatchVars == <<dpc, din, dkernel, dout, dsub>>

specializeVars == <<spc, sin, sold, sout>>

downloadVars == <<xusers, xrc, xdl, xfut, xmem, xcopied, xholder>>

ownVars == <<opc, oin, obuf, ocopy, oviews, ovec, oallocs, ofreed>>

callVars == <<cpc, cin, cout>>

vars ==
    <<debug, bufferVars, cacheVars, queueVars, indexVars, dispatchVars, specializeVars,
      downloadVars, ownVars, callVars>>

\* What the actions of one component leave alone.
others == <<specializeVars, downloadVars, ownVars, callVars>>
notBuffer == <<debug, cacheVars, queueVars, indexVars, dispatchVars, others>>
notCache == <<debug, bufferVars, queueVars, indexVars, dispatchVars, others>>
notQueue == <<debug, bufferVars, cacheVars, indexVars, dispatchVars, others>>
notIndex == <<debug, bufferVars, cacheVars, queueVars, dispatchVars, others>>
notDispatch == <<debug, bufferVars, cacheVars, queueVars, indexVars, others>>

notSpecialize ==
    <<debug, bufferVars, cacheVars, queueVars, indexVars, dispatchVars, downloadVars,
      ownVars, callVars>>

notDownload ==
    <<debug, bufferVars, cacheVars, queueVars, indexVars, dispatchVars, specializeVars,
      ownVars, callVars>>

notOwn ==
    <<debug, bufferVars, cacheVars, queueVars, indexVars, dispatchVars, specializeVars,
      downloadVars, callVars>>

notCall ==
    <<debug, bufferVars, cacheVars, queueVars, indexVars, dispatchVars, specializeVars,
      downloadVars, ownVars>>

---------------------------------------------------------------------------
(* Results.  A Rust call returns Ok, returns Err, or panics.               *)

Ok(v) == [kind |-> "Ok", val |-> v]
Err(e) == [kind |-> "Err", err |-> e]
Panic(at) == [kind |-> "Panic", at |-> at]

IsOk(r) == r.kind = "Ok"

None == [some |-> FALSE]
Some(v) == [some |-> TRUE, val |-> v]

---------------------------------------------------------------------------
(* Bounds of the model.                                                    *)

\* Longest host vector, in elements.
MaxLen == 2
\* Number of engines (opened devices) in the process.
NumEngines == 2
\* Number of host threads calling KernelBuilder::build concurrently.
NumThreads == 2
\* Number of KernelBuilder::build calls in one run.
MaxCalls == 3
\* Number of submissions to one queue in one run.
MaxFence == 2
\* Number of elements of the binding a kernel's slice is a sub-range of.
MaxBinding == 3
\* Number of handles to one device buffer the user holds at a time.
MaxHandles == 2
\* Number of downloads of one device buffer in one run.
MaxDownloads == 2
\* Number of values a specialize call is given.
MaxSpecs == 2
\* Bound on the number of push-constant descriptors of a drawn kernel.
MaxPush == 3
\* Bound on the number of slice descriptors of a drawn kernel.
MaxSlices == 2
\* Bound on the number of OpSpecConstant instructions of a drawn module.
MaxConsts == 2
\* Bound on the number of slice arguments a dispatch builder is given.
MaxSliceArgs == 2
\* Bound on the number of push arguments a dispatch builder is given.
MaxPushArgs == 2

---------------------------------------------------------------------------
(* Scalar model.                                                           *)

ScalarTypes ==
    {"U8", "I8", "U16", "I16", "F16", "BF16", "U32", "I32", "F32", "U64", "I64", "F64"}

\* ScalarType::size(): the element width in bytes.
ScalarTypeSize(t) ==
    CASE t \in {"U8", "I8"} -> 1
      [] t \in {"U16", "I16", "F16", "BF16"} -> 2
      [] t \in {"U32", "I32", "F32"} -> 4
      [] t \in {"U64", "I64", "F64"} -> 8

\* The element type the code picks for a width: u8, u16, u32, u64.
UnsignedOfSize(w) ==
    CASE w = 1 -> "U8" [] w = 2 -> "U16" [] w = 4 -> "U32" [] w = 8 -> "U64"

\* An element is its bit pattern: the sequence of its bytes in memory order.
\* Two patterns per type: ascending bytes 1,2,.. and descending 255,254,..
ElemVals(t) ==
    { [i \in 1..ScalarTypeSize(t) |-> i],
      [i \in 1..ScalarTypeSize(t) |-> 256 - i] }

\* All sequences over S of length at most n.
RECURSIVE SeqsUpTo(_, _)
SeqsUpTo(S, n) ==
    IF n = 0 THEN {<<>>}
    ELSE LET shorter == SeqsUpTo(S, n - 1)
         IN  shorter \cup {Append(s, x) : s \in {q \in shorter : Len(q) = n - 1}, x \in S}

\* bytemuck::cast_slice(&[T]) -> &[u8]: the elements' bytes, one after another.
RECURSIVE CastSlice(_)
CastSlice(elems) ==
    IF elems = <<>> THEN <<>> ELSE Head(elems) \o CastSlice(Tail(elems))

\* core::slice::from_raw_parts(ptr as *const T, n): n elements of width w read
\* from the memory at ptr; a byte outside that memory reads as -1.
FromRawParts(mem, w, n) ==
    [i \in 1..n |->
        [j \in 1..w |->
            IF (i - 1) * w + j <= Len(mem) THEN mem[(i - 1) * w + j] ELSE -1]]

---------------------------------------------------------------------------
(* Devices.                                                                *)

Engines == 1..NumEngines

\* DeviceInfo.index of an engine: two engines may open the same physical device.
EngineIndex(e) == e \div 2

HostDevice == [kind |-> "Host"]
DeviceOf(e) == [kind |-> "Device", engine |-> e]
Devices == {HostDevice} \cup {DeviceOf(e) : e \in Engines}

\* The address of an allocation: where it came from.  The allocation made to
\* hold a copy of the memory at ptr is another one.
Allocation(origin) == <<origin>>
CopyOf(ptr) == Append(ptr, "copy")

\* Vec<T>: the address of its allocation, its elements and its capacity, in
\* elements.
Vec(ptr, elems, cap) == [ptr |-> ptr, elems |-> elems, cap |-> cap]

---------------------------------------------------------------------------
(* Engine side of the raw buffer layer (spec.md 4.1): upload, download,    *)
(* alloc.  An engine buffer holds bytes; an empty one is absent.           *)

DeviceBase_upload(e, bytes) ==
    IF Len(bytes) = 0 THEN None ELSE Some([engine |-> e, data |-> bytes])

DeviceBase_download(device_buffer) == device_buffer.data

DeviceBase_alloc(e, len) ==
    IF len = 0 THEN None ELSE Some([engine |-> e, data |-> [i \in 1..len |-> 0]])

---------------------------------------------------------------------------
(* Raw buffer layer, src/src/buffer.rs.                                    *)

\* HostSlice { ptr, len }: mem is the memory ptr points at, len is in bytes.
HostSlice_from_bytes(ptr, bytes) == [ptr |-> ptr, mem |-> bytes, len |-> Len(bytes)]

HostSlice_as_slice(slice, t) ==
    FromRawParts(slice.mem, ScalarTypeSize(t), slice.len \div ScalarTypeSize(t))

HostInner(slice) == [kind |-> "Host", slice |-> slice]
DeviceInner(buffer) == [kind |-> "Device", buffer |-> buffer]

RawSliceInner_len(inner) ==
    IF inner.kind = "Host" THEN inner.slice.len
    ELSE IF inner.buffer.some THEN Len(inner.buffer.val.data) ELSE 0

RawSlice(device, scalar_type, inner) ==
    [device |-> device, scalar_type |-> scalar_type, inner |-> inner]

RawBuffer(slice, cap) == [slice |-> slice, cap |-> cap]

RawSlice_len(self) == RawSliceInner_len(self.inner) \div ScalarTypeSize(self.scalar_type)

RawSlice_from_bytes(scalar_type, ptr, bytes) ==
    RawSlice(HostDevice, scalar_type, HostInner(HostSlice_from_bytes(ptr, bytes)))

SliceOnDeviceError(index) == [type |-> "SliceOnDeviceError", index |-> index]

RawSlice_as_host_slice_unwrap_host(self, t) ==
    IF t # self.scalar_type THEN Panic("assert_eq!(T::scalar_type(), self.scalar_type)")
    ELSE IF self.inner.kind = "Host" THEN Ok(HostSlice_as_slice(self.inner.slice, t))
    ELSE Panic("unwrap_host()")

\* as_host_slice::<T>(): asserts the tag, then reads the host memory as [T].
RawSlice_as_host_slice(self, t) ==
    IF t # self.scalar_type THEN Panic("assert_eq!(T::scalar_type(), self.scalar_type)")
    ELSE IF self.inner.kind = "Host" THEN Ok(HostSlice_as_slice(self.inner.slice, t))
    ELSE Err(SliceOnDeviceError(EngineIndex(self.device.engine)))

\* as_host_slice_mut::<T>(): the same checks, for a mutable view.
RawSlice_as_host_slice_mut(self, t) ==
    IF t # self.scalar_type THEN Panic("assert_eq!(T::scalar_type(), self.scalar_type)")
    ELSE IF self.inner.kind = "Host" THEN Ok(HostSlice_as_slice(self.inner.slice, t))
    ELSE Err(SliceOnDeviceError(EngineIndex(self.device.engine)))

\* to_vec::<T>(): a vector copied from the host slice; capacity == length.
RawSlice_to_vec(self, t) ==
    LET r == RawSlice_as_host_slice(self, t)
    IN  IF IsOk(r) THEN Ok(Vec(CopyOf(self.inner.slice.ptr), r.val, Len(r.val))) ELSE r

\* RawBuffer::from_vec::<T>(vec): the vector's allocation, viewed as bytes.
RawBuffer_from_vec(t, vec) ==
    LET bytes == CastSlice(vec.elems)
    IN  RawBuffer(RawSlice(HostDevice, t, HostInner(HostSlice_from_bytes(vec.ptr, bytes))),
                  vec.cap * ScalarTypeSize(t))

\* to_raw_buffer(): a copy of a host slice, made through the unsigned type of
\* the same width; a device slice is todo!().
RawSlice_to_raw_buffer(self) ==
    IF self.inner.kind = "Host"
    THEN LET u == UnsignedOfSize(ScalarTypeSize(self.scalar_type))
             v == RawSlice_to_vec(self, u)
         IN  IF IsOk(v) THEN Ok(RawBuffer_from_vec(u, v.val)) ELSE v
    ELSE Panic("todo!()")

\* RawBuffer::alloc(device, scalar_type, len).
RawBuffer_alloc(device, scalar_type, len) ==
    IF device.kind = "Host"
    THEN LET u == UnsignedOfSize(ScalarTypeSize(scalar_type))
             zero == [j \in 1..ScalarTypeSize(scalar_type) |-> 0]
             buffer == RawBuffer_from_vec(u, Vec(Allocation("alloc"),
                                                 [i \in 1..len |-> zero], len))
         IN  Ok([buffer EXCEPT !.slice.scalar_type = scalar_type])
    ELSE LET nbytes == len * ScalarTypeSize(scalar_type)
         IN  Ok(RawBuffer(RawSlice(device, scalar_type,
                                   DeviceInner(DeviceBase_alloc(device.engine, nbytes))),
                          nbytes))

\* RawSlice::split_at(mid) and split_at_mut(mid): todo!().
RawSlice_split_at(self, mid) == Panic("todo!()")

RawSlice_split_at_mut(self, mid) == Panic("todo!()")

\* RawSlice::to_device(device).
RawSlice_to_device(self, device) ==
    IF RawSlice_len(self) = 0 THEN RawBuffer_alloc(device, self.scalar_type, 0)
    ELSE IF self.device = device THEN RawSlice_to_raw_buffer(self)
    ELSE IF self.device.kind = "Host" /\ device.kind = "Device"
    THEN LET bytes == HostSlice_as_slice(self.inner.slice, "U8")
             device_buffer == DeviceBase_upload(device.engine, CastSlice(bytes))
         IN  Ok(RawBuffer(RawSlice(device, self.scalar_type, DeviceInner(device_buffer)),
                          Len(bytes)))
    ELSE IF self.device.kind = "Device" /\ device.kind = "Host"
    THEN LET host_bytes == DeviceBase_download(self.inner.buffer.val)
         IN  RawSlice_to_raw_buffer(
                 RawSlice_from_bytes(self.scalar_type, Allocation("download"), host_bytes))
    ELSE Panic("unreachable!()")

RawBuffer_into_vec_bytes(self, t) ==
    IF t # self.slice.scalar_type THEN Panic("assert_eq!(T::scalar_type(), self.scalar_type)")
    ELSE IF self.slice.inner.kind = "Host"
    THEN LET slice == self.slice.inner.slice
             width == ScalarTypeSize(self.slice.scalar_type)
         IN  Ok(Vec(slice.ptr, FromRawParts(slice.mem, width, slice.len), self.cap))
    ELSE Err(SliceOnDeviceError(EngineIndex(self.slice.device.engine)))

\* RawBuffer::into_vec::<T>(): hands the allocation back as a Vec<T>.
RawBuffer_into_vec(self, t) ==
    IF t # self.slice.scalar_type THEN Panic("assert_eq!(T::scalar_type(), self.scalar_type)")
    ELSE IF self.slice.inner.kind = "Host"
    THEN LET slice == self.slice.inner.slice
             width == ScalarTypeSize(self.slice.scalar_type)
             len == slice.len \div width
             cap == self.cap \div width
         IN  Ok(Vec(slice.ptr, FromRawParts(slice.mem, width, len), cap))
    ELSE Err(SliceOnDeviceError(EngineIndex(self.slice.device.engine)))

\* A host allocation as the allocator sees it: its address, and the element
\* count, capacity and element width of the Vec that owns it.
Allocated(ptr, len, cap, width) == [ptr |-> ptr, len |-> len, cap |-> cap, width |-> width]

\* Dropping Vec::from_raw_parts(ptr, len, cap) of elements of the given width:
\* a Vec without capacity owns no allocation.
Vec_drop(ptr, len, cap, width) ==
    IF cap = 0 THEN None ELSE Some(Allocated(ptr, len, cap, width))

\* into_vec without its "self.cap = 0" and its mem::replace: self is left whole.
RawBuffer_into_vec_self_kept(self, t) == self

\* self as RawBuffer::into_vec::<T>(mut self) leaves it for its drop: on the
\* host path the slice is replaced by an empty one and the capacity by 0.
RawBuffer_into_vec_self(self, t) ==
    IF t # self.slice.scalar_type THEN self
    ELSE IF self.slice.inner.kind = "Host"
    THEN [self EXCEPT !.slice.inner.slice = HostSlice_from_bytes(Allocation("empty"), <<>>),
                      !.cap = 0]
    ELSE self

\* <RawBuffer as Drop>::drop: the host allocation it releases, if any.
RawBuffer_drop(self) ==
    IF self.slice.inner.kind = "Host"
    THEN LET width == ScalarTypeSize(self.slice.scalar_type)
             slice == self.slice.inner.slice
         IN  Vec_drop(slice.ptr, slice.len \div width, self.cap \div width, width)
    ELSE None

\* Dropping a RawSlice: neither RawSlice nor HostSlice has a Drop.
RawSlice_drop(self) == None

---------------------------------------------------------------------------
(* Typed buffer facade, src/src/buffer.rs.  A Buffer<T> is its element     *)
(* type T (the type parameter) and its raw buffer.                         *)

Buffer(t, raw) == [elem |-> t, raw |-> raw]

\* BufferRepr::<T>::from_raw_buffer(raw): the tag is only debug-asserted.
BufferRepr_from_raw_buffer(t, raw) ==
    IF debug /\ raw.slice.scalar_type # t
    THEN Panic("debug_assert_eq!(raw.scalar_type, T::scalar_type())")
    ELSE Ok(Buffer(t, raw))

\* Buffer::<T>::from_vec(vec).
BufferBase_from_vec(t, vec) == BufferRepr_from_raw_buffer(t, RawBuffer_from_vec(t, vec))

\* <BufferRepr<T> as Data>::into_device(device): the provided method, with
\* BufferRepr's own into_raw_buffer (which gives up self.raw).
Data_into_device(self, device) ==
    IF self.raw.slice.device = device THEN Ok(self.raw)
    ELSE RawSlice_to_device(self.raw.slice, device)

\* Buffer::<T>::into_device(device), blocked on.
BufferBase_into_device(self, device) ==
    LET fut == Data_into_device(self, device)
    IN  IF IsOk(fut) THEN BufferRepr_from_raw_buffer(self.elem, fut.val) ELSE fut

\* Buffer::<T>::into_vec(), blocked on: to the host, then unwrap the Vec.
BufferBase_into_vec(self) ==
    LET fut == Data_into_device(self, HostDevice)
    IN  IF IsOk(fut)
        THEN LET v == RawBuffer_into_vec(fut.val, self.elem)
             IN  IF v.kind = "Err" THEN Panic("unwrap()") ELSE v
        ELSE fut

\* Slice<T> / SliceMut<T>: a typed view of a raw slice.
Slice(t, raw) == [elem |-> t, raw |-> raw]

\* BufferBase::split_at(mid) and split_at_mut(mid): the raw halves, wrapped.
BufferBase_split_at(self, mid) ==
    LET r == RawSlice_split_at(self.raw.slice, mid)
    IN  IF IsOk(r) THEN Ok(<<Slice(self.elem, r.val[1]), Slice(self.elem, r.val[2])>>) ELSE r

BufferBase_split_at_mut(self, mid) ==
    LET r == RawSlice_split_at_mut(self.raw.slice, mid)
    IN  IF IsOk(r) THEN Ok(<<Slice(self.elem, r.val[1]), Slice(self.elem, r.val[2])>>) ELSE r

\* BufferBase::as_host_slice(&self) and as_host_slice_mut(&mut self).
BufferBase_as_host_slice(self) == RawSlice_as_host_slice(self.raw.slice, self.elem)

BufferBase_as_host_slice_mut(self) == RawSlice_as_host_slice_mut(self.raw.slice, self.elem)

\* BufferBase::as_slice(&self): a view holding a clone of the raw slice.
BufferBase_as_slice(self) == Slice(self.elem, self.raw.slice)

\* Data::into_raw_buffer as provided, which SliceRepr and SliceMutRepr keep.
Data_into_raw_buffer(raw) == RawSlice_to_raw_buffer(raw)

\* <SliceRepr<T> as Data>::into_device(device): the provided method.
SliceRepr_into_device(self, device) ==
    IF self.raw.device = device THEN Data_into_raw_buffer(self.raw)
    ELSE RawSlice_to_device(self.raw, device)

\* BufferBase::into_buffer(self), given what self.data.into_raw_buffer() returned.
BufferBase_into_buffer(t, raw) ==
    IF IsOk(raw) THEN BufferRepr_from_raw_buffer(t, raw.val) ELSE raw

\* Slice::<T>::into_device(device), blocked on.
Slice_into_device(self, device) ==
    BufferBase_into_buffer(self.elem, SliceRepr_into_device(self, device))

\* Data::as_raw_slice(&self): a buffer's raw buffer derefs to its raw slice.
Data_as_raw_slice(self) ==
    IF "slice" \in DOMAIN self.raw THEN self.raw.slice ELSE self.raw

\* BufferBase::len(&self).
BufferBase_len(self) ==
    RawSlice_len(Data_as_raw_slice(self)) * ScalarTypeSize(Data_as_raw_slice(self).scalar_type)

\* Buffer::<T>::alloc(device, len).
BufferBase_alloc(t, device, len) ==
    BufferBase_into_buffer(t, RawBuffer_alloc(device, t, len))

\* BufferBase::to_buffer(&self).
BufferBase_to_buffer(self) ==
    BufferBase_into_buffer(self.elem, Data_into_raw_buffer(Data_as_raw_slice(self)))

\* <BufferRepr<T> as DataOwned>::set_raw_buffer(&mut self, raw): self with its
\* raw buffer replaced; the tag is only debug-asserted.
BufferRepr_set_raw_buffer(self, raw) ==
    IF debug /\ raw.slice.scalar_type # self.elem
    THEN Panic("debug_assert_eq!(raw.scalar_type, T::scalar_type())")
    ELSE Ok([self EXCEPT !.raw = raw])

\* DataOwned::to_device_mut(&mut self, device), blocked on: what the call
\* returns and the buffer self is afterwards.  Nothing moves when self is on
\* the device already; self is replaced only when the transfer succeeded.
DataOwned_to_device_mut(self, device) ==
    IF Data_as_raw_slice(self).device = device
    THEN [result |-> Ok(<<>>), self |-> self]
    ELSE LET fut == RawSlice_to_device(Data_as_raw_slice(self), device)
             set == IF IsOk(fut) THEN BufferRepr_set_raw_buffer(self, fut.val) ELSE fut
         IN  IF IsOk(set)
             THEN [result |-> Ok(<<>>), self |-> set.val]
             ELSE [result |-> set, self |-> self]

\* Buffer::<T>::to_device_mut(&mut self, device), blocked on.
BufferBase_to_device_mut(self, device) == DataOwned_to_device_mut(self, device)

\* What the call RawSlice::to_device(device) returns: a future that is ready
\* with its output, or, from an engine to the host, one that is pending
\* until the engine has run the download it queued.  A panic of the ready
\* branches is a panic of the call.
RawSlice_to_device_call(self, device) ==
    LET output == RawSlice_to_device(self, device)
    IN  IF /\ RawSlice_len(self) # 0
           /\ self.device # device
           /\ self.device.kind = "Device"
           /\ device.kind = "Host"
        THEN Ok([state |-> "queued", output |-> output])
        ELSE IF output.kind = "Panic" THEN output
        ELSE Ok([state |-> "ready", output |-> output])

\* What the call DataOwned::to_device_mut(&mut self, device) returns: a
\* future with no buffer to set when self is on the device already, else
\* the transfer's future.
DataOwned_to_device_mut_call(self, device) ==
    IF Data_as_raw_slice(self).device = device
    THEN Ok([state |-> "ready", raw |-> None])
    ELSE LET fut == RawSlice_to_device_call(Data_as_raw_slice(self), device)
         IN  IF IsOk(fut)
             THEN Ok([state |-> fut.val.state, raw |-> Some(fut.val.output)])
             ELSE fut

\* The future of to_device_mut, completed: its output and the buffer self is
\* afterwards ("self.set_raw_buffer(fut.await?)").
DataOwned_to_device_mut_ready(self, fut) ==
    IF ~fut.raw.some THEN [result |-> Ok(<<>>), self |-> self]
    ELSE LET set == IF IsOk(fut.raw.val)
                    THEN BufferRepr_set_raw_buffer(self, fut.raw.val.val)
                    ELSE fut.raw.val
         IN  IF IsOk(set)
             THEN [result |-> Ok(<<>>), self |-> set.val]
             ELSE [result |-> set, self |-> self]

\* Arc<RawBuffer>: the buffer and the number of Arcs that point at it.
Arc(raw, strong) == [raw |-> raw, strong |-> strong]

\* Arc::try_unwrap(this): the value when this is the only Arc, else this back.
Arc_try_unwrap(this) == IF this.strong = 1 THEN Ok(this.raw) ELSE Err(this)

ArcBuffer(t, arc) == [elem |-> t, arc |-> arc]

\* Buffer::<T>::into_arc_buffer(): BufferRepr's raw buffer in a new Arc.
BufferBase_into_arc_buffer(self) == ArcBuffer(self.elem, Arc(self.raw, 1))

\* <ArcBuffer<T> as Clone>::clone: one more Arc to the same buffer.
ArcBuffer_clone(self) == [self EXCEPT !.arc.strong = @ + 1]

\* <ArcBufferRepr<T> as Data>::into_raw_buffer.
ArcBufferRepr_into_raw_buffer(self) ==
    LET r == Arc_try_unwrap(self.arc)
    IN  IF IsOk(r) THEN Ok(r.val) ELSE RawSlice_to_raw_buffer(r.err.raw.slice)

\* Buffer::<T>::to_arc_buffer(&self): Data::to_arc_raw_buffer as provided, a
\* copy in a new Arc.
BufferBase_to_arc_buffer(self) ==
    LET r == RawSlice_to_raw_buffer(Data_as_raw_slice(self))
    IN  IF IsOk(r) THEN Ok(ArcBuffer(self.elem, Arc(r.val, 1))) ELSE r

\* BufferBase::to_vec(&self), blocked on: as_slice().into_vec().
BufferBase_to_vec(self) ==
    LET fut == SliceRepr_into_device(BufferBase_as_slice(self), HostDevice)
    IN  IF IsOk(fut)
        THEN LET v == RawBuffer_into_vec(fut.val, self.elem)
             IN  IF v.kind = "Err" THEN Panic("unwrap()") ELSE v
        ELSE fut

\* CowBufferRepr: an owned buffer or a borrowed slice.
CowBufferRepr_Buffer(buffer) == [variant |-> "Buffer", elem |-> buffer.elem, buffer |-> buffer]
CowBufferRepr_Slice(slice) == [variant |-> "Slice", elem |-> slice.elem, slice |-> slice]

\* <CowBufferRepr<T> as Data>::into_raw_buffer.
CowBufferRepr_into_raw_buffer(self) ==
    IF self.variant = "Buffer" THEN Ok(self.buffer.raw)
    ELSE Data_into_raw_buffer(self.slice.raw)

---------------------------------------------------------------------------
(* Kernel descriptors and the kernel builder, src/crates/krnl/src/device.rs *)

\* ScalarElem: a tagged value; as_bytes() is its bytes in memory order.
ScalarElem(t, bytes) == [scalar_type |-> t, bytes |-> bytes]
U32(n) == ScalarElem("U32", <<n % 256, (n \div 256) % 256, (n \div 65536) % 256, n \div 16777216>>)
U32Value(x) == x.bytes[1] + 256 * x.bytes[2] + 65536 * x.bytes[3] + 16777216 * x.bytes[4]

SpecDesc(t, thread_dim) == [scalar_type |-> t, thread_dim |-> thread_dim]
SliceDesc(name, t, mutable, item) ==
    [name |-> name, scalar_type |-> t, mutable |-> mutable, item |-> item]
PushDesc(name, t) == [name |-> name, scalar_type |-> t]

KernelDesc(name, threads, spec_descs, slice_descs, push_descs) ==
    [name |-> name, threads |-> threads, spec_descs |-> spec_descs,
     slice_descs |-> slice_descs, push_descs |-> push_descs]

\* The descriptor blobs linked into the program; a blob's position is its
\* address, the builder's id.
Blobs ==
    << KernelDesc("copy", <<2>>, <<>>,
                  <<SliceDesc("x", "U32", FALSE, TRUE), SliceDesc("y", "U32", TRUE, TRUE)>>,
                  <<>>),
       KernelDesc("scale", <<2, 1>>, <<SpecDesc("U32", Some(0))>>,
                  <<SliceDesc("y", "F32", TRUE, FALSE)>>,
                  <<PushDesc("alpha", "U32")>>),
       KernelDesc("tile", <<2, 2>>, <<SpecDesc("U32", Some(1)), SpecDesc("F32", None)>>,
                  <<SliceDesc("y", "U32", TRUE, TRUE)>>,
                  <<>>) >>

\* push_descs.iter().map(|x| x.scalar_type.size()).sum().
RECURSIVE PushSizeSum(_)
PushSizeSum(push_descs) ==
    IF push_descs = <<>> THEN 0
    ELSE ScalarTypeSize(Head(push_descs).scalar_type) + PushSizeSum(Tail(push_descs))

\* push_consts_range without its rounding loop.
PadToWord_none(size) == size

\* while size % 4 != 0 { size += 1 }
RECURSIVE PadToWord(_)
PadToWord(size) == IF size % 4 # 0 THEN PadToWord(size + 1) ELSE size

\* KernelDesc::push_consts_range(): the size in bytes of the push-constant
\* block.  The closing try_into::<u32>().unwrap() cannot fail for a
\* descriptor that fits in memory.
KernelDesc_push_consts_range(self) ==
    PadToWord(PushSizeSum(self.push_descs)) + Len(self.slice_descs) * 2 * 4

\* KernelBuilder::from_bytes(bytes): threads padded to three dimensions with 1.
KernelBuilder_from_bytes(blob) ==
    LET desc == Blobs[blob]
    IN  [id |-> blob, desc |-> desc, spec_consts |-> <<>>,
         threads |-> [i \in 1..3 |-> IF i <= Len(desc.threads) THEN desc.threads[i] ELSE 1]]

\* The loop of KernelBuilder::specialize over spec_consts zipped with spec_descs,
\* from position i on: the threads it leaves, or the first failure.
RECURSIVE SpecializeLoop(_, _, _, _)
SpecializeLoop(spec_descs, spec_consts, i, threads) ==
    IF i > Len(spec_consts) \/ i > Len(spec_descs) THEN Ok(threads)
    ELSE LET spec_const == spec_consts[i]
             spec_desc == spec_descs[i]
         IN  IF spec_const.scalar_type # spec_desc.scalar_type
             THEN Panic("assert_eq!(spec_const.scalar_type(), spec_desc.scalar_type)")
             ELSE IF spec_desc.thread_dim.some
             THEN IF spec_const.scalar_type = "U32"
                  THEN IF U32Value(spec_const) = 0
                       THEN Err([msg |-> "threads cannot be zero",
                                 axis |-> <<"x", "y", "z">>[spec_desc.thread_dim.val + 1]])
                       ELSE SpecializeLoop(spec_descs, spec_consts, i + 1,
                               [threads EXCEPT ![spec_desc.thread_dim.val + 1] =
                                    U32Value(spec_const)])
                  ELSE Panic("unreachable!()")
             ELSE SpecializeLoop(spec_descs, spec_consts, i + 1, threads)

\* specialize without its clear(): the new values follow the old ones.
KernelBuilder_specialize_extend(self, spec_consts) ==
    IF Len(spec_consts) # Len(self.desc.spec_descs)
    THEN Panic("assert_eq!(spec_consts.len(), self.desc.spec_descs.len())")
    ELSE LET r == SpecializeLoop(self.desc.spec_descs, spec_consts, 1, self.threads)
         IN  IF IsOk(r)
             THEN Ok([self EXCEPT !.threads = r.val,
                                  !.spec_consts = self.spec_consts \o spec_consts])
             ELSE r

\* KernelBuilder::specialize(self, spec_consts).
KernelBuilder_specialize(self, spec_consts) ==
    IF Len(spec_consts) # Len(self.desc.spec_descs)
    THEN Panic("assert_eq!(spec_consts.len(), self.desc.spec_descs.len())")
    ELSE LET r == SpecializeLoop(self.desc.spec_descs, spec_consts, 1, self.threads)
         IN  IF IsOk(r)
             THEN Ok([self EXCEPT !.threads = r.val, !.spec_consts = spec_consts])
             ELSE r

\* A key made of the first value's bytes alone.
SpecBytes_head(spec_consts) ==
    IF spec_consts = <<>> THEN <<>> ELSE Head(spec_consts).bytes

\* spec_consts.iter().flat_map(|x| x.as_bytes()): the values' bytes, in order.
RECURSIVE SpecBytes(_)
SpecBytes(spec_consts) ==
    IF spec_consts = <<>> THEN <<>>
    ELSE Head(spec_consts).bytes \o SpecBytes(Tail(spec_consts))

KernelKey(id, spec_bytes) == [id |-> id, spec_bytes |-> spec_bytes]

\* KernelDesc::specialize(threads, spec_consts), as far as the pipeline's
\* descriptor goes: the given threads, no spec_descs left.
KernelDesc_specialize(self, threads, spec_consts) ==
    [self EXCEPT !.threads = threads, !.spec_descs = <<>>]

\* A SPIR-V word: the four bytes of a u32, low byte first.
Word(n) == <<n % 256, (n \div 256) % 256, 0, 0>>

\* The first word of an instruction: the word count over the opcode.
OpWord(opcode, wc) == <<opcode % 256, opcode \div 256, wc % 256, wc \div 256>>

\* spirv::Op and spirv::Decoration, the ones the modules here use.
OpDecorate == 71
OpSpecConstant == 50
DecorationSpecId == 1

\* rspirv::dr::Operand.
IdRef(w) == [kind |-> "IdRef", word |-> w]
Decoration(w) == [kind |-> "Decoration", word |-> w]
LiteralInt32(w) == [kind |-> "LiteralInt32", word |-> w]

\* rspirv::dr::Instruction.
Instruction(opcode, result_type, result_id, operands) ==
    [opcode |-> opcode, result_type |-> result_type, result_id |-> result_id,
     operands |-> operands]

\* The magic number 0x07230203 followed by version 1.3, generator 0, the id
\* bound and the reserved word.
SpirvHeader(bound) == <<<<3, 2, 35, 7>>, <<0, 3, 1, 0>>, Word(0), Word(bound), Word(0)>>

\* The words of one instruction.
Instruction_assemble(inst) ==
    LET ids == (IF inst.result_type.some THEN <<inst.result_type.val>> ELSE <<>>)
                   \o (IF inst.result_id.some THEN <<inst.result_id.val>> ELSE <<>>)
        ops == [i \in 1..Len(inst.operands) |-> inst.operands[i].word]
    IN  <<OpWord(inst.opcode, 1 + Len(ids) + Len(ops))>> \o ids \o ops

RECURSIVE Instructions_assemble(_)
Instructions_assemble(insts) ==
    IF insts = <<>> THEN <<>>
    ELSE Instruction_assemble(Head(insts)) \o Instructions_assemble(Tail(insts))

\* rspirv::dr::Module::assemble(): the header and the sections in order.
Module_assemble(module) ==
    module.header \o Instructions_assemble(module.annotations)
                  \o Instructions_assemble(module.types_global_values)

\* One instruction decoded from its words (the first word included), each
\* literal word as a LiteralInt32.
Instruction_decode(ws) ==
    LET opcode == ws[1][1] + 256 * ws[1][2]
        Lits(from) == [i \in 1..(Len(ws) - from + 1) |-> LiteralInt32(ws[from + i - 1])]
    IN  CASE opcode = OpDecorate /\ Len(ws) >= 3 ->
                 Ok(Instruction(opcode, None, None,
                                <<IdRef(ws[2]), Decoration(ws[3])>> \o Lits(4)))
          [] opcode = OpSpecConstant /\ Len(ws) >= 4 ->
                 Ok(Instruction(opcode, Some(ws[2]), Some(ws[3]), Lits(4)))
          [] OTHER -> Err("unsupported instruction")

\* The instructions of the words from position i on.
RECURSIVE Instructions_decode(_, _)
Instructions_decode(words, i) ==
    IF i > Len(words) THEN Ok(<<>>)
    ELSE LET wc == words[i][3] + 256 * words[i][4]
         IN  IF wc = 0 \/ i + wc - 1 > Len(words) THEN Err("word count")
             ELSE LET inst == Instruction_decode(SubSeq(words, i, i + wc - 1))
                      rest == Instructions_decode(words, i + wc)
                  IN  IF ~IsOk(inst) THEN inst
                      ELSE IF ~IsOk(rest) THEN rest
                      ELSE Ok(<<inst.val>> \o rest.val)

\* rspirv::dr::load_words(words): the module, its instructions sorted into
\* sections by opcode.
load_words(words) ==
    IF Len(words) < 5 \/ words[1] # <<3, 2, 35, 7>> THEN Err("header")
    ELSE LET insts == Instructions_decode(words, 6)
             Section(ops) == SelectSeq(insts.val, LAMBDA inst : inst.opcode \in ops)
         IN  IF ~IsOk(insts) THEN insts
             ELSE Ok([header |-> SubSeq(words, 1, 5),
                      annotations |-> Section({OpDecorate}),
                      types_global_values |-> Section({OpSpecConstant})])

\* &bytes[..n]: panics when n is beyond the end.
SliceTo(bytes, n) ==
    IF n > Len(bytes) THEN Panic("range end index out of range")
    ELSE Ok(SubSeq(bytes, 1, n))

\* &bytes[n..]: panics when n is beyond the end.
SliceFrom(bytes, n) ==
    IF n > Len(bytes) THEN Panic("range start index out of range")
    ELSE Ok(SubSeq(bytes, n + 1, Len(bytes)))

\* dst.copy_from_slice(src) for src the outcome of a slicing: panics
\* unless the two have the same length.
copy_from_slice(dst, src) ==
    IF ~IsOk(src) THEN src
    ELSE IF Len(dst) # Len(src.val)
    THEN Panic("source slice length does not match destination slice length")
    ELSE Ok(src.val)

\* The spec_ids map after the first n annotations: insert replaces.
RECURSIVE SpecIds(_, _)
SpecIds(annotations, n) ==
    IF n = 0 THEN <<>>
    ELSE LET inst == annotations[n]
             before == SpecIds(annotations, n - 1)
         IN  IF /\ inst.opcode = OpDecorate
                /\ Len(inst.operands) = 3
                /\ inst.operands[1].kind = "IdRef"
                /\ inst.operands[2] = Decoration(Word(DecorationSpecId))
                /\ inst.operands[3].kind = "LiteralInt32"
             THEN (inst.operands[1].word :> inst.operands[3].word) @@ before
             ELSE before

\* spec_consts.get(spec_id as usize).
SpecConsts_get(spec_consts, spec_id) ==
    IF spec_id[2] = 0 /\ spec_id[3] = 0 /\ spec_id[4] = 0 /\ spec_id[1] < Len(spec_consts)
    THEN Some(spec_consts[spec_id[1] + 1])
    ELSE None

\* The body of the loop over types_global_values for one instruction: the
\* instruction as it is left, or the panic.
PatchSpecConstant(inst, spec_ids, spec_consts) ==
    IF inst.opcode # OpSpecConstant \/ ~inst.result_id.some THEN Ok(inst)
    ELSE IF inst.result_id.val \notin DOMAIN spec_ids THEN Ok(inst)
    ELSE LET value == SpecConsts_get(spec_consts, spec_ids[inst.result_id.val])
             ops == inst.operands
         IN  IF ~value.some THEN Ok(inst)
             ELSE IF Len(ops) = 1 /\ ops[1].kind = "LiteralInt32"
             THEN LET a == copy_from_slice(ops[1].word, Ok(value.val.bytes))
                  IN  IF IsOk(a)
                      THEN Ok([inst EXCEPT !.operands = <<LiteralInt32(a.val)>>])
                      ELSE a
             ELSE IF Len(ops) = 2 /\ ops[1].kind = "LiteralInt32" /\ ops[2].kind = "LiteralInt32"
             THEN LET a == copy_from_slice(ops[1].word, SliceTo(value.val.bytes, 8))
                      b == copy_from_slice(ops[2].word, SliceFrom(value.val.bytes, 9))
                  IN  IF ~IsOk(a) THEN a
                      ELSE IF ~IsOk(b) THEN b
                      ELSE Ok([inst EXCEPT !.operands = <<LiteralInt32(a.val), LiteralInt32(b.val)>>])
             ELSE Panic("unreachable!()")

\* The loop over types_global_values from position i on.
RECURSIVE PatchSpecConstants(_, _, _, _)
PatchSpecConstants(insts, i, spec_ids, spec_consts) ==
    IF i > Len(insts) THEN Ok(insts)
    ELSE LET r == PatchSpecConstant(insts[i], spec_ids, spec_consts)
         IN  IF IsOk(r)
             THEN PatchSpecConstants([insts EXCEPT ![i] = r.val], i + 1, spec_ids, spec_consts)
             ELSE r

\* The places the body of KernelDesc::specialize(&self, threads, spec_consts)
\* reads and writes: the descriptor behind &self, the arguments, the locals
\* module and spec_ids, and what the call has returned or panicked with.
KernelDesc_specialize_frame(self, threads, spec_consts) ==
    [self |-> self, threads |-> threads, spec_consts |-> spec_consts,
     module |-> None, spec_ids |-> <<>>, ret |-> None]

\* let mut module = rspirv::dr::load_words(&self.spirv).unwrap();
KernelDesc_specialize_load_words(f) ==
    LET module == load_words(f.self.spirv)
    IN  IF IsOk(module) THEN [f EXCEPT !.module = Some(module.val)]
        ELSE [f EXCEPT !.ret = Some(Panic("unwrap()"))]

\* The loop over module.annotations, which fills spec_ids.
KernelDesc_specialize_spec_ids(f) ==
    IF f.ret.some THEN f
    ELSE [f EXCEPT !.spec_ids =
                SpecIds(f.module.val.annotations, Len(f.module.val.annotations))]

\* The same loop over a module that borrows the descriptor's words, not one
\* parsed into memory of its own: what is patched is the descriptor's.
KernelDesc_specialize_patch_in_place(f) ==
    IF f.ret.some THEN f
    ELSE LET patched == PatchSpecConstants(f.module.val.types_global_values, 1,
                                           f.spec_ids, f.spec_consts)
         IN  IF IsOk(patched)
             THEN LET module == [f.module.val EXCEPT !.types_global_values = patched.val]
                  IN  [f EXCEPT !.module = Some(module),
                                !.self.spirv = Module_assemble(module)]
             ELSE [f EXCEPT !.ret = Some(patched)]

\* The loop over module.types_global_values.iter_mut(): the literals of the
\* local module are rewritten, or the call panics.
KernelDesc_specialize_patch(f) ==
    IF f.ret.some THEN f
    ELSE LET patched == PatchSpecConstants(f.module.val.types_global_values, 1,
                                           f.spec_ids, f.spec_consts)
         IN  IF IsOk(patched)
             THEN [f EXCEPT !.module =
                        Some([f.module.val EXCEPT !.types_global_values = patched.val])]
             ELSE [f EXCEPT !.ret = Some(patched)]

\* let spirv = module.assemble();
\* Ok(Self { spirv, spec_descs: Vec::new(), threads, ..self.clone() })
KernelDesc_specialize_return(f) ==
    IF f.ret.some THEN f
    ELSE [f EXCEPT !.ret =
                Some(Ok([KernelDesc_specialize(f.self, f.threads, f.spec_consts) EXCEPT
                            !.spirv = Module_assemble(f.module.val)]))]

\* The body of KernelDesc::specialize, statement by statement.
KernelDesc_specialize_body(self, threads, spec_consts) ==
    KernelDesc_specialize_return(
        KernelDesc_specialize_patch(
            KernelDesc_specialize_spec_ids(
                KernelDesc_specialize_load_words(
                    KernelDesc_specialize_frame(self, threads, spec_consts)))))

\* KernelDesc::specialize(&self, threads, spec_consts) on a descriptor
\* with its SPIR-V words: the descriptor returned, or the panic.
KernelDesc_specialize_spirv(self, threads, spec_consts) ==
    KernelDesc_specialize_body(self, threads, spec_consts).ret.val

\* The descriptor specialize was called on, as the body leaves it.
KernelDesc_specialize_self(self, threads, spec_consts) ==
    KernelDesc_specialize_body(self, threads, spec_consts).self

\* The descriptor producer KernelBuilder::build passes to cached.
KernelBuilder_desc_fn(self) ==
    IF self.desc.spec_descs # <<>>
    THEN KernelDesc_specialize(self.desc, SubSeq(self.threads, 1, Len(self.desc.threads)),
                               self.spec_consts)
    ELSE self.desc

\* The key KernelBuilder::build forms.
KernelBuilder_key(self) ==
    KernelKey(self.id,
              IF self.desc.spec_descs # <<>> THEN SpecBytes(self.spec_consts) ELSE <<>>)

\* KernelBuilder::build(device) up to its call of cached: the failure, or the
\* engine and key it calls cached with.
KernelBuilder_build_request(self, device) ==
    IF device.kind = "Host"
    THEN Err([msg |-> "expected device, found host", kernel |-> self.desc.name])
    ELSE IF self.desc.spec_descs # <<>> /\ self.spec_consts = <<>>
    THEN Err([msg |-> "must be specialized", kernel |-> self.desc.name])
    ELSE Ok([engine |-> device.engine, key |-> KernelBuilder_key(self), builder |-> self])

---------------------------------------------------------------------------
(* The pipeline cache of an engine (spec.md 4.1, 9): DeviceEngineKernel::  *)
(* cached as a per-key single flight.  A lookup is one step under the      *)
(* cache's mutex; the build runs outside it.                               *)

Threads == 1..NumThreads

CacheEntry(e, key) == {c \in cache[e] : c.key = key}

IsCached_never(e, key) == FALSE

IsCached(e, key) == CacheEntry(e, key) # {}

IsBuilding_never(e, key) == FALSE

IsBuilding(e, key) == key \in building[e]

\* Handles are allocated in build order.
NewPipeline(desc) == [handle |-> Len(buildlog) + 1, desc |-> desc]

\* 1.0f32.
F32One == ScalarElem("F32", <<0, 0, 128, 63>>)

\* The builders a program can hold: fresh from a blob, or specialized.
SpecValues == {U32(0), U32(2), U32(4)}

Builders ==
    LET fresh == {KernelBuilder_from_bytes(b) : b \in 1..Len(Blobs)}
        tried == {KernelBuilder_specialize(k, <<v>>) : k \in {f \in fresh : Len(f.desc.spec_descs) = 1},
                                                         v \in SpecValues}
    IN  fresh \cup {r.val : r \in {x \in tried : IsOk(x)}}

IdleCache ==
    /\ cache = [e \in Engines |-> {}]
    /\ building = [e \in Engines |-> {}]
    /\ buildlog = <<>>
    /\ tpc = [t \in Threads |-> "idle"]
    /\ treq = [t \in Threads |-> None]
    /\ tres = [t \in Threads |-> None]
    /\ returns = {}
    /\ ncalls = 0

\* A thread calls builder.build(device).
Build(t) ==
    /\ tpc[t] = "idle"
    /\ ncalls < MaxCalls
    /\ \E builder \in Builders, device \in Devices :
         LET r == KernelBuilder_build_request(builder, device)
         IN  /\ treq' = [treq EXCEPT ![t] = r]
             /\ tpc' = [tpc EXCEPT ![t] = IF IsOk(r) THEN "lookup" ELSE "returned"]
             /\ tres' = [tres EXCEPT ![t] = IF IsOk(r) THEN None ELSE r]
    /\ ncalls' = ncalls + 1
    /\ UNCHANGED <<cache, building, buildlog, returns>>

Returned(t, how) ==
    LET req == treq[t].val
        entry == CHOOSE c \in CacheEntry(req.engine, req.key) : TRUE
    IN  /\ tres' = [tres EXCEPT ![t] = Ok(entry.pipeline)]
        /\ returns' = returns \cup {[engine |-> req.engine, key |-> req.key,
                                     pipeline |-> entry.pipeline, how |-> how]}
        /\ tpc' = [tpc EXCEPT ![t] = "returned"]

\* cached finds the key in the cache and returns its pipeline.
CachedHit(t) ==
    /\ tpc[t] = "lookup"
    /\ IsCached(treq[t].val.engine, treq[t].val.key)
    /\ Returned(t, "hit")
    /\ UNCHANGED <<cache, building, buildlog, treq, ncalls>>

\* cached misses and no build of the key is in flight: this thread builds.
CachedMiss(t) ==
    /\ tpc[t] = "lookup"
    /\ ~IsCached(treq[t].val.engine, treq[t].val.key)
    /\ ~IsBuilding(treq[t].val.engine, treq[t].val.key)
    /\ building' = [building EXCEPT ![treq[t].val.engine] = @ \cup {treq[t].val.key}]
    /\ tpc' = [tpc EXCEPT ![t] = "building"]
    /\ UNCHANGED <<cache, buildlog, treq, tres, returns, ncalls>>

\* cached misses while another thread builds the key: this thread waits.
CachedJoin(t) ==
    /\ tpc[t] = "lookup"
    /\ ~IsCached(treq[t].val.engine, treq[t].val.key)
    /\ IsBuilding(treq[t].val.engine, treq[t].val.key)
    /\ tpc' = [tpc EXCEPT ![t] = "waiting"]
    /\ UNCHANGED <<cache, building, buildlog, treq, tres, returns, ncalls>>

\* The builder runs desc_fn, builds the pipeline, inserts it and returns it.
CachedBuild(t) ==
    /\ tpc[t] = "building"
    /\ LET req == treq[t].val
           pipeline == NewPipeline(KernelBuilder_desc_fn(req.builder))
       IN  /\ buildlog' = Append(buildlog, [engine |-> req.engine, key |-> req.key,
                                            pipeline |-> pipeline])
           /\ cache' = [cache EXCEPT ![req.engine] =
                           {c \in @ : c.key # req.key} \cup {[key |-> req.key, pipeline |-> pipeline]}]
           /\ building' = [building EXCEPT ![req.engine] = @ \ {req.key}]
           /\ tres' = [tres EXCEPT ![t] = Ok(pipeline)]
           /\ returns' = returns \cup {[engine |-> req.engine, key |-> req.key,
                                        pipeline |-> pipeline, how |-> "built"]}
    /\ tpc' = [tpc EXCEPT ![t] = "returned"]
    /\ UNCHANGED <<treq, ncalls>>

\* A waiter observes the builder's result.
CachedWake(t) ==
    /\ tpc[t] = "waiting"
    /\ IsCached(treq[t].val.engine, treq[t].val.key)
    /\ Returned(t, "woken")
    /\ UNCHANGED <<cache, building, buildlog, treq, ncalls>>

\* build returns to its caller.
BuildReturn(t) ==
    /\ tpc[t] = "returned"
    /\ tpc' = [tpc EXCEPT ![t] = "idle"]
    /\ treq' = [treq EXCEPT ![t] = None]
    /\ tres' = [tres EXCEPT ![t] = None]
    /\ UNCHANGED <<cache, building, buildlog, returns, ncalls>>

---------------------------------------------------------------------------
(* Submission, fences, wait and device loss (spec.md 4.1, 5).  Each queue  *)
(* of an engine has a worker that runs its command stream in order.        *)

Queues == {"compute", "transfer"}

\* An engine has a dedicated transfer queue or falls back to its compute queue.
HasTransferQueue(e) == e % 2 = 1

EngineOps == {"alloc", "upload", "download", "transfer", "dispatch"}

\* The queue an operation is appended to.
QueueOf(e, op) ==
    IF op = "dispatch" \/ ~HasTransferQueue(e) THEN "compute" ELSE "transfer"

\* error::DeviceLost { index, handle }.
DeviceLost(e) == [type |-> "DeviceLost", index |-> EngineIndex(e), handle |-> e]

\* A completion handle: the queue it targets and its fence value.
Handle(q, value) == [queue |-> q, value |-> value]

\* The handles of a sequence of fence values of queue q.
HandlesIn(q, values) == {Handle(q, values[i]) : i \in 1..Len(values)}

\* Every handle the engine has given out.
HandlesOf == UNION {HandlesIn(q, qissued[q]) : q \in Queues}

\* The handles whose command has not run yet.
Outstanding == UNION {HandlesIn(q, qstream[q]) : q \in Queues}

\* What awaiting a handle yields now.
HandleStatus(h) ==
    IF qcompleted[h.queue] >= h.value THEN "Complete"
    ELSE IF lost THEN "DeviceLost"
    ELSE "Pending"

\* The fence value the next submission to a queue is tagged with.
NextFence(q) == Len(qissued[q]) + 1

PoisonedSubmit_ignored == FALSE

\* A poisoned engine fails fast.
PoisonedSubmit == lost

PopCommand_lifo(stream) ==
    [value |-> stream[Len(stream)], rest |-> SubSeq(stream, 1, Len(stream) - 1)]

\* The worker takes the oldest command of its stream.
PopCommand(stream) == [value |-> Head(stream), rest |-> Tail(stream)]

\* A worker of a lost engine runs nothing more.
WorkerRuns == ~lost

Engine_wait_ready_compute_only(snap) ==
    \A h \in snap : h.queue = "compute" => qcompleted[h.queue] >= h.value

\* wait() of a healthy engine returns once every handle given out before the
\* call is complete.
Engine_wait_ready(snap) ==
    \A h \in snap : qcompleted[h.queue] >= h.value

\* DeviceEngine::wait(): the result once it returns.
Engine_wait == IF lost THEN Err(DeviceLost(qengine)) ELSE Ok(<<>>)

\* Device::wait(): Ok on the host, the engine's wait on a device.
Device_wait(device, engine_wait) ==
    IF device.kind = "Host" THEN Ok(<<>>) ELSE engine_wait

IdleQueue ==
    /\ qstream = [q \in Queues |-> <<>>]
    /\ qissued = [q \in Queues |-> <<>>]
    /\ qcompleted = [q \in Queues |-> 0]
    /\ qexecuted = [q \in Queues |-> <<>>]
    /\ lost = FALSE
    /\ lossSnap = None
    /\ lastcall = None
    /\ wpc = "idle"
    /\ wreq = None
    /\ wres = None

\* What an engine operation returned: lostBefore tells whether the engine was
\* already lost when it was called, queued whether a command was appended.
Call(op, queued, result) ==
    Some([op |-> op, lostBefore |-> lost, queued |-> queued, result |-> result])

\* alloc(nbytes): no queue is involved.
Alloc ==
    /\ \E r \in {Ok("buffer"), Err("OutOfMemory")} :
         lastcall' = Call("alloc", FALSE, IF PoisonedSubmit THEN Err(DeviceLost(qengine)) ELSE r)
    /\ UNCHANGED <<qengine, qstream, qissued, qcompleted, qexecuted, lost, lossSnap,
                   wpc, wreq, wres>>

\* upload, download, transfer, dispatch: the command is appended to its queue
\* and a completion handle is returned.
Submit(op) ==
    LET q == QueueOf(qengine, op)
        value == NextFence(q)
    IN  /\ op # "alloc"
        /\ Len(qissued[q]) < MaxFence
        /\ IF PoisonedSubmit
           THEN /\ lastcall' = Call(op, FALSE, Err(DeviceLost(qengine)))
                /\ UNCHANGED <<qstream, qissued>>
           ELSE /\ lastcall' = Call(op, TRUE, Ok(Handle(q, value)))
                /\ qstream' = [qstream EXCEPT ![q] = Append(@, value)]
                /\ qissued' = [qissued EXCEPT ![q] = Append(@, value)]
        /\ UNCHANGED <<qengine, qcompleted, qexecuted, lost, lossSnap, wpc, wreq, wres>>

\* A queue's worker runs its next command and signals the command's fence.
Execute(q) ==
    /\ qstream[q] # <<>>
    /\ WorkerRuns
    /\ LET cmd == PopCommand(qstream[q])
       IN  /\ qstream' = [qstream EXCEPT ![q] = cmd.rest]
           /\ qexecuted' = [qexecuted EXCEPT ![q] = Append(@, cmd.value)]
           /\ qcompleted' = [qcompleted EXCEPT ![q] = IF cmd.value > @ THEN cmd.value ELSE @]
    /\ UNCHANGED <<qengine, qissued, lost, lossSnap, lastcall, wpc, wreq, wres>>

\* The device is lost: the engine is poisoned.
Lose ==
    /\ ~lost
    /\ lost' = TRUE
    /\ lossSnap' = Some(Outstanding)
    /\ UNCHANGED <<qengine, qstream, qissued, qcompleted, qexecuted, lastcall, wpc, wreq, wres>>

\* A thread calls device.wait().
WaitCall(device) ==
    /\ wpc = "idle"
    /\ IF device.kind = "Host"
       THEN /\ wpc' = "returned"
            /\ wreq' = Some([device |-> device, snap |-> {}, lostBefore |-> FALSE])
            /\ wres' = Some(Device_wait(device, None))
       ELSE /\ wpc' = "waiting"
            /\ wreq' = Some([device |-> device, snap |-> HandlesOf, lostBefore |-> lost])
            /\ wres' = None
    /\ UNCHANGED <<qengine, qstream, qissued, qcompleted, qexecuted, lost, lossSnap, lastcall>>

\* The engine's wait returns: the work is flushed, or the engine is lost.
WaitReturn ==
    /\ wpc = "waiting"
    /\ lost \/ Engine_wait_ready(wreq.val.snap)
    /\ wres' = Some(Device_wait(wreq.val.device, Engine_wait))
    /\ wpc' = "returned"
    /\ UNCHANGED <<qengine, qstream, qissued, qcompleted, qexecuted, lost, lossSnap,
                   lastcall, wreq>>

\* The caller goes on.
WaitDone ==
    /\ wpc = "returned"
    /\ wpc' = "idle"
    /\ wreq' = None
    /\ wres' = None
    /\ UNCHANGED <<qengine, qstream, qissued, qcompleted, qexecuted, lost, lossSnap, lastcall>>

---------------------------------------------------------------------------
(* Slices inside a kernel, src/krnl-core/src/buffer.rs.  A binding is an   *)
(* array of elements at positions 0..; a slice is bound to the positions   *)
(* offset .. offset+len-1 of it.  An indexing operation returns a          *)
(* reference: Ok(position), having touched that position, or panics.      *)

Targets == {"spirv", "host"}

\* SliceRepr: on spirv the binding with offset and len; on the host a &[T]
\* that starts at the slice's first element.
SliceRepr(target, offset, len) ==
    IF target = "spirv"
    THEN [target |-> target, offset |-> offset, len |-> len]
    ELSE [target |-> target, inner |-> [start |-> offset, len |-> len]]

\* UnsafeSliceRepr: on the host a pointer to the slice's first element.
UnsafeSliceRepr(target, offset, len) ==
    IF target = "spirv"
    THEN [target |-> target, offset |-> offset, len |-> len]
    ELSE [target |-> target, ptr |-> offset, len |-> len]

IndexOutOfBounds == Panic("index out of bounds")

\* <[T] as Index<usize>>::index of the standard library.
StdSlice_index(slice, index) ==
    IF index < slice.len THEN Ok(slice.start + index) ELSE IndexOutOfBounds

\* <SliceRepr as DataBase>::len.
SliceRepr_len(self) == IF self.target = "spirv" THEN self.len ELSE self.inner.len

\* <SliceRepr as Index<usize>>::index.
SliceRepr_index(self, index) ==
    IF self.target = "spirv"
    THEN IF index < self.len THEN Ok(self.offset + index) ELSE IndexOutOfBounds
    ELSE StdSlice_index(self.inner, index)

UnsafeSliceRepr_unsafe_index_inclusive(self, index) ==
    IF index <= self.len
    THEN IF self.target = "spirv" THEN Ok(self.offset + index) ELSE Ok(self.ptr + index)
    ELSE IndexOutOfBounds

\* <UnsafeSliceRepr as UnsafeIndex<usize>>::unsafe_index.
UnsafeSliceRepr_unsafe_index(self, index) ==
    IF index < self.len
    THEN IF self.target = "spirv" THEN Ok(self.offset + index) ELSE Ok(self.ptr + index)
    ELSE IndexOutOfBounds

\* <UnsafeSliceRepr as UnsafeIndex<usize>>::unsafe_index_mut.
UnsafeSliceRepr_unsafe_index_mut(self, index) ==
    IF index < self.len
    THEN IF self.target = "spirv" THEN Ok(self.offset + index) ELSE Ok(self.ptr + index)
    ELSE IndexOutOfBounds

IndexOps == {"index", "unsafe_index", "unsafe_index_mut"}

\* The slices a validated dispatch binds: sub-ranges of the binding.
IndexInputs ==
    { [target |-> t, op |-> o, offset |-> off, len |-> n, index |-> i] :
        t \in Targets, o \in IndexOps, off \in 0..MaxBinding, n \in 0..MaxBinding,
        i \in 0..(MaxBinding + 1) }

IdleIndex ==
    /\ ipc = "off"
    /\ iin = None
    /\ iout = None
    /\ iacc = {}

\* The positions a returned reference lets the kernel touch.
Touched(r) == IF IsOk(r) THEN {r.val} ELSE {}

\* x[i] on a Slice.
SliceIndex ==
    /\ ipc = "start"
    /\ iin.op = "index"
    /\ LET r == SliceRepr_index(SliceRepr(iin.target, iin.offset, iin.len), iin.index)
       IN  iout' = r /\ iacc' = Touched(r)
    /\ ipc' = "done"
    /\ UNCHANGED <<iin, notIndex>>

\* x.unsafe_index(i) on an UnsafeSlice.
UnsafeIndex ==
    /\ ipc = "start"
    /\ iin.op = "unsafe_index"
    /\ LET r == UnsafeSliceRepr_unsafe_index(UnsafeSliceRepr(iin.target, iin.offset, iin.len),
                                             iin.index)
       IN  iout' = r /\ iacc' = Touched(r)
    /\ ipc' = "done"
    /\ UNCHANGED <<iin, notIndex>>

\* x.unsafe_index_mut(i) on an UnsafeSlice.
UnsafeIndexMut ==
    /\ ipc = "start"
    /\ iin.op = "unsafe_index_mut"
    /\ LET r == UnsafeSliceRepr_unsafe_index_mut(UnsafeSliceRepr(iin.target, iin.offset, iin.len),
                                                 iin.index)
       IN  iout' = r /\ iacc' = Touched(r)
    /\ ipc' = "done"
    /\ UNCHANGED <<iin, notIndex>>

---------------------------------------------------------------------------
(* Kernel and Kernel::dispatch, src/crates/krnl/src/device.rs.             *)

\* Kernel { inner, groups }: inner is the pipeline of an engine with its
\* descriptor.
Kernel(engine, desc, groups) == [engine |-> engine, desc |-> desc, groups |-> groups]

\* DeviceBuffer: the engine it belongs to.
DeviceBuffer(e) == [engine |-> e]

\* A usize is 64 bits wide: hi * 2^32 + lo, with lo below 2^32.
USize(hi, lo) == [hi |-> hi, lo |-> lo]

USize_le(a, b) == a.hi < b.hi \/ (a.hi = b.hi /\ a.lo <= b.lo)

\* usize::min.
USize_min(a, b) == IF USize_le(a, b) THEN a ELSE b

\* x as u32: the low 32 bits.
USize_as_u32(x) == x.lo

\* KernelSliceArg, by what its accessors return: scalar_type(), mutable(),
\* len() (a usize) and device_buffer() (None for a host-resident slice).
KernelSliceArg(scalar_type, mutable, len, device_buffer) ==
    [scalar_type |-> scalar_type, mutable |-> mutable, len |-> len,
     device_buffer |-> device_buffer]

\* Debug for RawDevice: Device(index, handle).
RawDevice_fmt(e) == [index |-> EngineIndex(e), handle |-> e]

Arc_ptr_eq_any(a, b) == TRUE

\* Arc::ptr_eq on two engines.
Arc_ptr_eq(a, b) == a = b

Min(a, b) == IF a < b THEN a ELSE b

global_threads_to_groups_floor(global_threads, threads) ==
    LET n == Min(Min(Len(global_threads), 3), Len(threads))
    IN  IF debug /\ Len(global_threads) # Len(threads)
        THEN Panic("debug_assert_eq!(global_threads.len(), threads.len())")
        ELSE IF \E i \in 1..n : threads[i] = 0
        THEN Panic("attempt to divide by zero")
        ELSE Ok([i \in 1..3 |-> IF i <= n THEN global_threads[i] \div threads[i] ELSE 1])

\* global_threads_to_groups(global_threads, threads).
global_threads_to_groups(global_threads, threads) ==
    LET n == Min(Min(Len(global_threads), 3), Len(threads))
    IN  IF debug /\ Len(global_threads) # Len(threads)
        THEN Panic("debug_assert_eq!(global_threads.len(), threads.len())")
        ELSE IF \E i \in 1..n : threads[i] = 0
        THEN Panic("attempt to divide by zero")
        ELSE Ok([i \in 1..3 |->
                   IF i <= n
                   THEN (global_threads[i] \div threads[i])
                        + (IF global_threads[i] % threads[i] # 0 THEN 1 ELSE 0)
                   ELSE 1])

\* Kernel::global_threads(self, global_threads).
Kernel_global_threads(self, global_threads) ==
    LET groups == global_threads_to_groups(global_threads, self.desc.threads)
    IN  IF IsOk(groups) THEN Ok([self EXCEPT !.groups = Some(groups.val)]) ELSE groups

\* Kernel::groups(self, groups).
Kernel_groups(self, groups) ==
    IF debug /\ Len(groups) # Len(self.desc.threads)
    THEN Panic("debug_assert_eq!(groups.len(), self.inner.desc().threads.len())")
    ELSE IF Len(groups) > 3
    THEN Panic("range end index out of range")
    ELSE Ok([self EXCEPT !.groups =
                Some([i \in 1..3 |-> IF i <= Len(groups) THEN groups[i] ELSE 1])])

\* DeviceEngineKernel::dispatch(groups, buffers, push_bytes) of a healthy
\* engine (spec.md 4.1): the compute work is queued.
Engine_dispatch(engine, groups, buffers, push_bytes) ==
    [result |-> Ok(<<>>),
     call |-> Some([engine |-> engine, groups |-> groups, buffers |-> buffers,
                    push_bytes |-> push_bytes])]

\* What Kernel::dispatch comes to when it ends before reaching the engine.
Rejected(result) == [result |-> result, call |-> None]

\* The loop of Kernel::dispatch over slices zipped with slice_descs, from
\* position i on: the buffers and the item count, or the first failure.
RECURSIVE DispatchSlices(_, _, _, _, _)
DispatchSlices(self, slices, i, buffers, items) ==
    IF i > Len(slices) \/ i > Len(self.desc.slice_descs)
    THEN Ok([buffers |-> buffers, items |-> items])
    ELSE LET slice == slices[i]
             slice_desc == self.desc.slice_descs[i]
         IN  IF debug /\ slice.scalar_type # slice_desc.scalar_type
             THEN Panic("debug_assert_eq!(slice.scalar_type(), slice_desc.scalar_type)")
             ELSE IF debug /\ ~(~slice_desc.mutable \/ slice.mutable)
             THEN Panic("debug_assert!(!slice_desc.mutable || slice.mutable())")
             ELSE IF ~slice.device_buffer.some
             THEN Err([msg |-> "expected device, found host",
                       kernel |-> self.desc.name, slice |-> slice_desc.name])
             ELSE IF ~Arc_ptr_eq(slice.device_buffer.val.engine, self.engine)
             THEN Err([msg |-> "expected device, found other device",
                       kernel |-> self.desc.name, slice |-> slice_desc.name,
                       expected |-> RawDevice_fmt(self.engine),
                       found |-> RawDevice_fmt(slice.device_buffer.val.engine)])
             ELSE DispatchSlices(self, slices, i + 1,
                                 Append(buffers, slice.device_buffer.val),
                                 IF slice_desc.item
                                 THEN Some(IF items.some THEN USize_min(items.val, slice.len)
                                           ELSE slice.len)
                                 ELSE items)

\* The group count Kernel::dispatch uses: the kernel's own, or inferred from
\* the item count.
DispatchGroups(self, items) ==
    IF self.groups.some THEN Ok(self.groups.val)
    ELSE IF items.some
    THEN IF \E i \in 2..Len(self.desc.threads) : self.desc.threads[i] > 1
         THEN Err([msg |-> "cannot infer global_threads if threads.y > 1 or threads.z > 1",
                   kernel |-> self.desc.name, threads |-> self.desc.threads])
         ELSE global_threads_to_groups(<<USize_as_u32(items.val)>>, <<self.desc.threads[1]>>)
    ELSE Err([msg |-> "global_threads or groups not provided", kernel |-> self.desc.name])

\* The loop of Kernel::dispatch over push_consts zipped with push_descs.
RECURSIVE DispatchPushBytes(_, _, _, _)
DispatchPushBytes(self, push_consts, i, push_bytes) ==
    IF i > Len(push_consts) \/ i > Len(self.desc.push_descs) THEN Ok(push_bytes)
    ELSE IF debug /\ push_consts[i].scalar_type # self.desc.push_descs[i].scalar_type
    THEN Panic("debug_assert_eq!(push.scalar_type(), push_desc.scalar_type)")
    ELSE DispatchPushBytes(self, push_consts, i + 1, push_bytes \o push_consts[i].bytes)

\* Kernel::dispatch(self, slices, push_consts): its result and the call it
\* made to the engine, if it made one.
Kernel_dispatch(self, slices, push_consts) ==
    LET bound == DispatchSlices(self, slices, 1, <<>>, None)
    IN  IF ~IsOk(bound) THEN Rejected(bound)
        ELSE LET groups == DispatchGroups(self, bound.val.items)
             IN  IF ~IsOk(groups) THEN Rejected(groups)
                 ELSE LET push_bytes == DispatchPushBytes(self, push_consts, 1, <<>>)
                      IN  IF ~IsOk(push_bytes) THEN Rejected(push_bytes)
                          ELSE Engine_dispatch(self.engine, groups.val, bound.val.buffers,
                                               push_bytes.val)

IdleDispatch ==
    /\ dpc = "off"
    /\ din = None
    /\ dkernel = None
    /\ dout = None
    /\ dsub = [e \in Engines |-> <<>>]

\* let kernel = kernel.groups(&g);
SetGroups ==
    /\ dpc = "kernel"
    /\ din.config.kind = "groups"
    /\ LET k == Kernel_groups(dkernel, din.config.val)
       IN  IF IsOk(k)
           THEN dkernel' = k.val /\ dpc' = "configured" /\ dout' = dout
           ELSE dkernel' = dkernel /\ dpc' = "done" /\ dout' = k
    /\ UNCHANGED <<din, dsub, notDispatch>>

\* let kernel = kernel.global_threads(&gt);
SetGlobalThreads ==
    /\ dpc = "kernel"
    /\ din.config.kind = "global_threads"
    /\ LET k == Kernel_global_threads(dkernel, din.config.val)
       IN  IF IsOk(k)
           THEN dkernel' = k.val /\ dpc' = "configured" /\ dout' = dout
           ELSE dkernel' = dkernel /\ dpc' = "done" /\ dout' = k
    /\ UNCHANGED <<din, dsub, notDispatch>>

\* unsafe { kernel.dispatch(&slices, &push_consts) }
Dispatch ==
    /\ \/ dpc = "configured"
       \/ dpc = "kernel" /\ din.config.kind = "none"
    /\ LET r == Kernel_dispatch(dkernel, din.slices, din.push_consts)
       IN  /\ dout' = r.result
           /\ dsub' = IF r.call.some
                      THEN [dsub EXCEPT ![r.call.val.engine] = Append(@, r.call.val)]
                      ELSE dsub
    /\ dpc' = "dispatched"
    /\ UNCHANGED <<din, dkernel, notDispatch>>

---------------------------------------------------------------------------
(* The specialize program and the download component at rest.              *)

Downloads == 1..MaxDownloads

IdleSpecialize ==
    /\ spc = "off"
    /\ sin = None
    /\ sold = None
    /\ sout = None

IdleDownload ==
    /\ xusers = 0
    /\ xrc = 0
    /\ xdl = [k \in Downloads |-> "none"]
    /\ xfut = [k \in Downloads |-> "none"]
    /\ xmem = "live"
    /\ xcopied = [k \in Downloads |-> None]
    /\ xholder = "command"

IdleOwn ==
    /\ opc = "off"
    /\ oin = None
    /\ obuf = None
    /\ ocopy = None
    /\ oviews = 0
    /\ ovec = None
    /\ oallocs = {}
    /\ ofreed = <<>>

IdleCall ==
    /\ cpc = "off"
    /\ cin = None
    /\ cout = <<>>

\* Every component but the one a specification runs is at rest.
IdleOthers == IdleSpecialize /\ IdleDownload /\ IdleOwn /\ IdleCall

---------------------------------------------------------------------------
(* The buffer pipeline at rest.                                            *)

IdleBuffer ==
    /\ bpc = "off"
    /\ bin = None
    /\ bbuf = None
    /\ bout = None
    /\ bpath = <<>>
    /\ bfut = None


---------------------------------------------------------------------------
(* The buffer pipeline: a host program that builds a buffer from a vector, *)
(* optionally moves it to a device, and reads it back.                     *)

BufferInputs ==
    { [elem |-> t, vec |-> Vec(Allocation("vec"), s, c), device |-> d, mid |-> m] :
        t \in ScalarTypes, d \in Devices, m \in 0..(MaxLen + 1),
        s \in UNION {SeqsUpTo(ElemVals(u), MaxLen) : u \in ScalarTypes},
        c \in 0..(MaxLen + 1) }

InitBuffer ==
    /\ IdleOthers
    /\ debug \in BOOLEAN
    /\ IdleCache
    /\ qengine = 1
    /\ IdleQueue
    /\ IdleIndex
    /\ IdleDispatch
    /\ bpc = "start"
    /\ bin \in { i \in BufferInputs :
                   /\ i.mid = 0
                   /\ i.vec.elems \in SeqsUpTo(ElemVals(i.elem), MaxLen)
                   /\ i.vec.cap \in {Len(i.vec.elems), Len(i.vec.elems) + 1} }
    /\ bbuf = None
    /\ bout = None
    /\ bpath = <<>>
    /\ bfut = None

\* let buffer = Buffer::from_vec(v);
FromVec ==
    /\ bpc = "start"
    /\ bbuf' = BufferBase_from_vec(bin.elem, bin.vec)
    /\ bpc' = "buffer"
    /\ bpath' = Append(bpath, "from_vec")
    /\ UNCHANGED <<bin, bout, bfut, notBuffer>>

\* let buffer = buffer.into_device(d)?.block()?;
IntoDevice ==
    /\ bpc = "buffer"
    /\ IsOk(bbuf)
    /\ bpath = <<"from_vec">>
    /\ bbuf' = BufferBase_into_device(bbuf.val, bin.device)
    /\ bpath' = Append(bpath, "into_device")
    /\ UNCHANGED <<bpc, bin, bout, bfut, notBuffer>>

\* let y = buffer.into_vec()?.block()?;
IntoVec ==
    /\ bpc = "buffer"
    /\ bout' = IF IsOk(bbuf) THEN BufferBase_into_vec(bbuf.val) ELSE bbuf
    /\ bpc' = "done"
    /\ bpath' = Append(bpath, "into_vec")
    /\ UNCHANGED <<bin, bbuf, bfut, notBuffer>>

\* let r = buffer.as_host_slice();
AsHostSlice ==
    /\ bpc = "buffer"
    /\ IsOk(bbuf)
    /\ bout' = BufferBase_as_host_slice(bbuf.val)
    /\ bpc' = "done"
    /\ bpath' = Append(bpath, "as_host_slice")
    /\ UNCHANGED <<bin, bbuf, bfut, notBuffer>>

\* let r = buffer.as_host_slice_mut();
AsHostSliceMut ==
    /\ bpc = "buffer"
    /\ IsOk(bbuf)
    /\ bout' = BufferBase_as_host_slice_mut(bbuf.val)
    /\ bpc' = "done"
    /\ bpath' = Append(bpath, "as_host_slice_mut")
    /\ UNCHANGED <<bin, bbuf, bfut, notBuffer>>

\* let (a, b) = buffer.split_at(mid);
SplitAt ==
    /\ bpc = "buffer"
    /\ IsOk(bbuf)
    /\ \E mid \in 0..(MaxLen + 1) :
          /\ bin' = [bin EXCEPT !.mid = mid]
          /\ bout' = BufferBase_split_at(bbuf.val, mid)
    /\ bpc' = "done"
    /\ bpath' = Append(bpath, "split_at")
    /\ UNCHANGED <<bbuf, bfut, notBuffer>>

\* let (a, b) = buffer.split_at_mut(mid);
SplitAtMut ==
    /\ bpc = "buffer"
    /\ IsOk(bbuf)
    /\ \E mid \in 0..(MaxLen + 1) :
          /\ bin' = [bin EXCEPT !.mid = mid]
          /\ bout' = BufferBase_split_at_mut(bbuf.val, mid)
    /\ bpc' = "done"
    /\ bpath' = Append(bpath, "split_at_mut")
    /\ UNCHANGED <<bbuf, bfut, notBuffer>>

\* let r = buffer.into_device(buffer.device().clone())?.block();
IntoSameDevice ==
    /\ bpc = "buffer"
    /\ IsOk(bbuf)
    /\ bout' = BufferBase_into_device(bbuf.val, bbuf.val.raw.slice.device)
    /\ bpc' = "done"
    /\ bpath' = Append(bpath, "into_same_device")
    /\ UNCHANGED <<bin, bbuf, bfut, notBuffer>>

\* let r = buffer.as_slice().into_device(buffer.device().clone())?.block();
SliceIntoSameDevice ==
    /\ bpc = "buffer"
    /\ IsOk(bbuf)
    /\ bout' = Slice_into_device(BufferBase_as_slice(bbuf.val), bbuf.val.raw.slice.device)
    /\ bpc' = "done"
    /\ bpath' = Append(bpath, "slice_into_same_device")
    /\ UNCHANGED <<bin, bbuf, bfut, notBuffer>>

\* let r = raw_slice.to_device(raw_slice.device.clone())?.block();
ToSameDevice ==
    /\ bpc = "buffer"
    /\ IsOk(bbuf)
    /\ bout' = BufferBase_into_buffer(bbuf.val.elem,
                    RawSlice_to_device(bbuf.val.raw.slice, bbuf.val.raw.slice.device))
    /\ bpc' = "done"
    /\ bpath' = Append(bpath, "to_same_device")
    /\ UNCHANGED <<bin, bbuf, bfut, notBuffer>>

\* let a = buffer.into_arc_buffer()?; the program keeps a clone of a, or
\* none; let r = a.into_buffer();
ArcIntoBuffer ==
    /\ bpc = "buffer"
    /\ IsOk(bbuf)
    /\ \E keep \in BOOLEAN :
          LET a == BufferBase_into_arc_buffer(bbuf.val)
              shared == IF keep THEN ArcBuffer_clone(a) ELSE a
          IN  /\ bout' = BufferBase_into_buffer(shared.elem,
                                                ArcBufferRepr_into_raw_buffer(shared))
              /\ bpath' = Append(bpath, IF shared.arc.strong = 1
                                        THEN "arc_into_buffer_unique"
                                        ELSE "arc_into_buffer_shared")
    /\ bpc' = "done"
    /\ UNCHANGED <<bin, bbuf, bfut, notBuffer>>

\* let r = CowBuffer::from(buffer).into_buffer();   or
\* let r = CowBuffer::from(buffer.as_slice()).into_buffer();
CowIntoBuffer ==
    /\ bpc = "buffer"
    /\ IsOk(bbuf)
    /\ \E cow \in {CowBufferRepr_Buffer(bbuf.val),
                    CowBufferRepr_Slice(BufferBase_as_slice(bbuf.val))} :
          /\ bout' = BufferBase_into_buffer(cow.elem, CowBufferRepr_into_raw_buffer(cow))
          /\ bpath' = Append(bpath, IF cow.variant = "Buffer"
                                    THEN "cow_into_buffer_owned"
                                    ELSE "cow_into_buffer_borrowed")
    /\ bpc' = "done"
    /\ UNCHANGED <<bin, bbuf, bfut, notBuffer>>

\* let n = buffer.len(); let m = buffer.as_slice().len();
BufferLen ==
    /\ bpc = "buffer"
    /\ IsOk(bbuf)
    /\ bout' = Ok([buffer |-> BufferBase_len(bbuf.val),
                   slice |-> BufferBase_len(BufferBase_as_slice(bbuf.val))])
    /\ bpc' = "done"
    /\ bpath' = Append(bpath, "len")
    /\ UNCHANGED <<bin, bbuf, bfut, notBuffer>>

\* let r = unsafe { Buffer::<T>::alloc(d, n) };
BufferAlloc ==
    /\ bpc = "start"
    /\ bout' = BufferBase_alloc(bin.elem, bin.device, Len(bin.vec.elems))
    /\ bpc' = "done"
    /\ bpath' = Append(bpath, "alloc")
    /\ UNCHANGED <<bin, bbuf, bfut, notBuffer>>

\* let r = buffer.to_buffer();
ToBuffer ==
    /\ bpc = "buffer"
    /\ IsOk(bbuf)
    /\ bout' = BufferBase_to_buffer(bbuf.val)
    /\ bpc' = "done"
    /\ bpath' = Append(bpath, "to_buffer")
    /\ UNCHANGED <<bin, bbuf, bfut, notBuffer>>

\* let r = buffer.to_arc_buffer();
ToArcBuffer ==
    /\ bpc = "buffer"
    /\ IsOk(bbuf)
    /\ bout' = BufferBase_to_arc_buffer(bbuf.val)
    /\ bpc' = "done"
    /\ bpath' = Append(bpath, "to_arc_buffer")
    /\ UNCHANGED <<bin, bbuf, bfut, notBuffer>>

\* let r = buffer.to_vec()?.block();
ToVec ==
    /\ bpc = "buffer"
    /\ IsOk(bbuf)
    /\ bout' = BufferBase_to_vec(bbuf.val)
    /\ bpc' = "done"
    /\ bpath' = Append(bpath, "to_vec")
    /\ UNCHANGED <<bin, bbuf, bfut, notBuffer>>

\* let fut = buffer.to_device_mut(d)?;  the program moves its buffer to the
\* host at most once and to an engine at most once.  The call leaves the
\* buffer as it is: the future holds what is to replace it.
ToDeviceMut ==
    /\ bpc = "buffer"
    /\ IsOk(bbuf)
    /\ \E d \in Devices :
          LET step == IF d = HostDevice THEN "to_device_mut_host" ELSE "to_device_mut_device"
              r == DataOwned_to_device_mut_call(bbuf.val, d)
          IN  /\ \A i \in 1..Len(bpath) : bpath[i] # step
              /\ bfut' = IF IsOk(r) THEN Some(r.val) ELSE None
              /\ bout' = IF IsOk(r) THEN bout ELSE r
              /\ bpc' = IF IsOk(r) THEN "moving" ELSE "done"
              /\ bpath' = Append(bpath, step)
    /\ UNCHANGED <<bin, bbuf, notBuffer>>

\* The engine's worker runs the download the call queued; until then the
\* future is pending.
ToDeviceMutCopy ==
    /\ bpc = "moving"
    /\ bfut.val.state = "queued"
    /\ bfut' = Some([bfut.val EXCEPT !.state = "copied"])
    /\ UNCHANGED <<bpc, bin, bbuf, bout, bpath, notBuffer>>

\* fut.block()?;  the future completes: the buffer is replaced in place, and
\* the program goes on with the buffer it holds when the result is Ok.
ToDeviceMutReady ==
    /\ bpc = "moving"
    /\ bfut.val.state \in {"ready", "copied"}
    /\ LET r == DataOwned_to_device_mut_ready(bbuf.val, bfut.val)
       IN  /\ bbuf' = Ok(r.self)
           /\ bout' = IF IsOk(r.result) THEN bout ELSE r.result
           /\ bpc' = IF IsOk(r.result) THEN "buffer" ELSE "done"
    /\ bfut' = None
    /\ UNCHANGED <<bin, bpath, notBuffer>>

\* drop(fut);  without completing it: the buffer stays as it was.
ToDeviceMutDrop ==
    /\ bpc = "moving"
    /\ bfut' = None
    /\ bpc' = "buffer"
    /\ bpath' = Append(bpath, "drop_future")
    /\ UNCHANGED <<bin, bbuf, bout, notBuffer>>

NextBuffer ==
    \/ FromVec
    \/ IntoDevice
    \/ IntoVec
    \/ AsHostSlice
    \/ AsHostSliceMut
    \/ SplitAt
    \/ SplitAtMut
    \/ IntoSameDevice
    \/ SliceIntoSameDevice
    \/ ToSameDevice
    \/ ArcIntoBuffer
    \/ CowIntoBuffer
    \/ BufferLen
    \/ BufferAlloc
    \/ ToBuffer
    \/ ToArcBuffer
    \/ ToVec
    \/ ToDeviceMut
    \/ ToDeviceMutCopy
    \/ ToDeviceMutReady
    \/ ToDeviceMutDrop

SpecBuffer == InitBuffer /\ [][NextBuffer]_vars

---------------------------------------------------------------------------
(* Host threads building kernels against the engines' pipeline caches.     *)

InitCache ==
    /\ IdleOthers
    /\ debug = FALSE
    /\ IdleBuffer
    /\ IdleCache
    /\ qengine = 1
    /\ IdleQueue
    /\ IdleIndex
    /\ IdleDispatch

ThreadBuild == \E t \in Threads : Build(t) /\ UNCHANGED notCache
ThreadCachedHit == \E t \in Threads : CachedHit(t) /\ UNCHANGED notCache
ThreadCachedMiss == \E t \in Threads : CachedMiss(t) /\ UNCHANGED notCache
ThreadCachedJoin == \E t \in Threads : CachedJoin(t) /\ UNCHANGED notCache
ThreadCachedBuild == \E t \in Threads : CachedBuild(t) /\ UNCHANGED notCache
ThreadCachedWake == \E t \in Threads : CachedWake(t) /\ UNCHANGED notCache
ThreadBuildReturn == \E t \in Threads : BuildReturn(t) /\ UNCHANGED notCache

NextCache ==
    \/ ThreadBuild
    \/ ThreadCachedHit
    \/ ThreadCachedMiss
    \/ ThreadCachedJoin
    \/ ThreadCachedBuild
    \/ ThreadCachedWake
    \/ ThreadBuildReturn

SpecCache == InitCache /\ [][NextCache]_vars

---------------------------------------------------------------------------
(* A host program submitting work to the engines, their workers, and loss. *)

InitQueue ==
    /\ IdleOthers
    /\ debug = FALSE
    /\ IdleBuffer
    /\ IdleCache
    /\ qengine \in Engines
    /\ IdleQueue
    /\ IdleIndex
    /\ IdleDispatch

EngineAlloc == Alloc /\ UNCHANGED notQueue
EngineSubmit == \E op \in EngineOps : Submit(op) /\ UNCHANGED notQueue
WorkerExecute == \E q \in Queues : Execute(q) /\ UNCHANGED notQueue
DeviceLoss == Lose /\ UNCHANGED notQueue
DeviceWaitCall == \E d \in {HostDevice, DeviceOf(qengine)} : WaitCall(d) /\ UNCHANGED notQueue
DeviceWaitReturn == WaitReturn /\ UNCHANGED notQueue
DeviceWaitDone == WaitDone /\ UNCHANGED notQueue

NextQueue ==
    \/ EngineAlloc
    \/ EngineSubmit
    \/ WorkerExecute
    \/ DeviceLoss
    \/ DeviceWaitCall
    \/ DeviceWaitReturn
    \/ DeviceWaitDone

SpecQueue == InitQueue /\ [][NextQueue]_vars

---------------------------------------------------------------------------
(* A kernel thread indexing one slice argument.                            *)

InitIndex ==
    /\ IdleOthers
    /\ debug = FALSE
    /\ IdleBuffer
    /\ IdleCache
    /\ qengine = 1
    /\ IdleQueue
    /\ ipc = "start"
    /\ iin \in {i \in IndexInputs : i.offset + i.len <= MaxBinding}
    /\ iout = None
    /\ iacc = {}
    /\ IdleDispatch

NextIndex == SliceIndex \/ UnsafeIndex \/ UnsafeIndexMut

SpecIndex == InitIndex /\ [][NextIndex]_vars

---------------------------------------------------------------------------
(* A host program that holds a built kernel, optionally sets its groups or *)
(* global threads, and dispatches it.                                      *)

\* The kernels the program holds: one per blob, specialized where the blob
\* asks for it.
LaunchBuilders ==
    LET tiled == {KernelBuilder_specialize(KernelBuilder_from_bytes(3), <<U32(y), F32One>>) :
                     y \in {1, 2}}
    IN  {b \in Builders \cup {r.val : r \in tiled} :
            /\ b.spec_consts \in {<<>>, <<U32(2)>>, <<U32(1), F32One>>, <<U32(2), F32One>>}
            /\ IsOk(KernelBuilder_build_request(b, DeviceOf(1)))}

\* Slice lengths: none, one, the longest short one, and one that does not
\* fit in 32 bits.
SliceLens == {USize(0, n) : n \in {0, 1, MaxLen}} \cup {USize(1, 0)}

\* The program passes at most as many slices as its largest kernel takes.
MaxArgs ==
    LET counts == {Len(Blobs[b].slice_descs) : b \in 1..Len(Blobs)}
    IN  CHOOSE n \in counts : \A m \in counts : m <= n

ArgValues ==
    { KernelSliceArg(t, m, n, b) :
        t \in {"U32", "F32"}, m \in BOOLEAN, n \in SliceLens,
        b \in {None} \cup {Some(DeviceBuffer(e)) : e \in {1, NumEngines}} }

PushValues == {<<>>, <<U32(2)>>, <<F32One>>}

\* Group counts and global thread counts of the kernel's dimensionality.
\* One more has a dimension too many.
Counts(desc) ==
    {c \in SeqsUpTo({0, MaxLen + 1}, 3) : Len(c) = Len(desc.threads)}
        \cup {[i \in 1..(Len(desc.threads) + 1) |-> MaxLen + 1]}

Configs(desc) ==
    {[kind |-> "none"]}
        \cup {[kind |-> k, val |-> c] : k \in {"groups", "global_threads"}, c \in Counts(desc)}

InitDispatch ==
    /\ IdleOthers
    /\ debug \in BOOLEAN
    /\ IdleBuffer
    /\ IdleCache
    /\ qengine = 1
    /\ IdleQueue
    /\ IdleIndex
    /\ dpc = "kernel"
    /\ \E b \in LaunchBuilders, e \in Engines :
         /\ dkernel = Kernel(e, KernelBuilder_desc_fn(b), None)
         /\ \E c \in Configs(dkernel.desc), a \in SeqsUpTo(ArgValues, MaxArgs), p \in PushValues :
              din = [builder |-> b, config |-> c, slices |-> a, push_consts |-> p]
    /\ dout = None
    /\ dsub = [e \in Engines |-> <<>>]

NextDispatch == SetGroups \/ SetGlobalThreads \/ Dispatch

SpecDispatch == InitDispatch /\ [][NextDispatch]_vars

---------------------------------------------------------------------------
(* Properties of the buffer pipeline.                                      *)

RoundTripDone(path) == bpc = "done" /\ bpath = path

\* C1: for every element type T, device d and vector v, the program
\* Buffer::from_vec(v).into_device(d) followed by into_vec() ends without an
\* error or a panic and yields a vector with v's elements.
C1_DeviceRoundTrip ==
    RoundTripDone(<<"from_vec", "into_device", "into_vec">>) =>
        IsOk(bout) /\ bout.val.elems = bin.vec.elems

\* C2: for every element type T and host vector v, Buffer::from_vec(v)
\* followed by into_vec() returns a vector with v's length and elements.
C2_HostRoundTrip ==
    RoundTripDone(<<"from_vec", "into_vec">>) =>
        IsOk(bout) /\ bout.val.elems = bin.vec.elems

C2_Witness ==
    /\ RoundTripDone(<<"from_vec", "into_vec">>)
    /\ bin.elem = "F64"
    /\ Len(bin.vec.elems) = 2
    /\ bin.vec.elems[1] # bin.vec.elems[2]
    /\ bin.vec.cap > Len(bin.vec.elems)
    /\ bout = Ok(bin.vec)

\* The program ended with the given operation on a buffer it held.
EndedWith(op) == bpc = "done" /\ bpath # <<>> /\ bpath[Len(bpath)] = op /\ IsOk(bbuf)

OnDevice(buffer) == buffer.raw.slice.device.kind = "Device"

\* C11: as_host_slice and as_host_slice_mut on a device-backed buffer return
\* the error SliceOnDeviceError carrying the index of that device, without a
\* panic; on a host-backed buffer they return the buffer's elements.
C11_HostSliceOrDeviceError ==
    (EndedWith("as_host_slice") \/ EndedWith("as_host_slice_mut")) =>
        IF OnDevice(bbuf.val)
        THEN bout = Err([type |-> "SliceOnDeviceError",
                         index |-> EngineIndex(bbuf.val.raw.slice.device.engine)])
        ELSE bout = Ok(bin.vec.elems)

C11_Witness ==
    /\ EndedWith("as_host_slice")
    /\ bpath = <<"from_vec", "into_device", "as_host_slice">>
    /\ OnDevice(bbuf.val)
    /\ bin.elem = "F32"
    /\ bin.vec.elems # <<>>
    /\ bout.kind = "Err"
    /\ bout.err.index = 1

\* C12: for every buffer b and every mid <= b.len(), split_at(mid) and
\* split_at_mut(mid) return two slices of b's allocation whose lengths are mid
\* and len - mid (element ranges [0, mid) and [mid, len)), so split_at(len) is
\* (full, empty) and split_at(0) is (empty, full); only mid > len panics.
C12_SplitAtHalves ==
    (EndedWith("split_at") \/ EndedWith("split_at_mut")) =>
        LET len == Len(bin.vec.elems)
        IN  IF bin.mid <= len
            THEN /\ IsOk(bout)
                 /\ RawSlice_len(bout.val[1].raw) = bin.mid
                 /\ RawSlice_len(bout.val[2].raw) = len - bin.mid
                 /\ \A i \in 1..2 : bout.val[i].raw.device = bbuf.val.raw.slice.device
                 /\ ~OnDevice(bbuf.val) =>
                        /\ HostSlice_as_slice(bout.val[1].raw.inner.slice, bin.elem)
                               = SubSeq(bin.vec.elems, 1, bin.mid)
                        /\ HostSlice_as_slice(bout.val[2].raw.inner.slice, bin.elem)
                               = SubSeq(bin.vec.elems, bin.mid + 1, len)
            ELSE bout.kind = "Panic"

---------------------------------------------------------------------------
(* Properties of the pipeline cache.                                       *)

SameKey(r1, r2) == r1.engine = r2.engine /\ r1.key = r2.key

\* C3: on one engine any two calls made with equal keys return the identical
\* pipeline handle, and the pipeline cached for a key is never replaced: what
\* a call returned is still the cache's entry for its key.
C3_EqualKeysSamePipeline ==
    /\ \A r1, r2 \in returns : SameKey(r1, r2) => r1.pipeline = r2.pipeline
    /\ \A r \in returns : [key |-> r.key, pipeline |-> r.pipeline] \in cache[r.engine]

C3_Witness ==
    \E r1, r2 \in returns :
        /\ SameKey(r1, r2)
        /\ r1.how = "built"
        /\ r2.how = "hit"
        /\ r1.key.spec_bytes # <<>>
        /\ Len(buildlog) = 2

\* C4: under every interleaving desc_fn and the pipeline build run at most
\* once for a key of an engine, and every caller of that key receives the
\* pipeline of that one build.
C4_SingleFlight ==
    /\ \A i, j \in 1..Len(buildlog) : SameKey(buildlog[i], buildlog[j]) => i = j
    /\ \A r \in returns : \E i \in 1..Len(buildlog) :
           SameKey(buildlog[i], r) /\ buildlog[i].pipeline = r.pipeline

C4_Witness ==
    \E r1, r2 \in returns :
        /\ SameKey(r1, r2)
        /\ r1.how = "built"
        /\ r2.how = "woken"

---------------------------------------------------------------------------
(* Properties of submission, wait and loss.                                *)

Executed(q) == {qexecuted[q][i] : i \in 1..Len(qexecuted[q])}

\* C5: when wait() returns success, every handle returned by an upload,
\* download, transfer or dispatch before the call is complete; on the host
\* wait() always returns success.
C5_WaitIsBarrier ==
    wpc = "returned" =>
        /\ IsOk(wres.val) => \A h \in wreq.val.snap : HandleStatus(h) = "Complete"
        /\ wreq.val.device.kind = "Host" => IsOk(wres.val)

C5_Witness ==
    /\ wpc = "returned"
    /\ wreq.val.device.kind = "Device"
    /\ IsOk(wres.val)
    /\ \E h1, h2 \in wreq.val.snap : h1.queue = "compute" /\ h2.queue = "transfer"

\* C6: of two operations submitted to one queue the first gets the smaller
\* fence value and completes first: the completed fence reaches a
\* submission's value only when that submission and every earlier one of the
\* queue has run, and a handle is complete only once its command has run.
C6_QueueFifo ==
    \A q \in Queues :
        /\ \A i, j \in 1..Len(qissued[q]) : i < j => qissued[q][i] < qissued[q][j]
        /\ \A j \in 1..Len(qissued[q]) :
               qcompleted[q] >= qissued[q][j] =>
                   \A i \in 1..j : qissued[q][i] \in Executed(q)
        /\ \A h \in HandlesIn(q, qissued[q]) :
               HandleStatus(h) = "Complete" <=> h.value \in Executed(q)

C6_Witness ==
    \E q \in Queues :
        /\ Len(qissued[q]) = 2
        /\ qexecuted[q] = <<qissued[q][1]>>
        /\ qcompleted[q] = qissued[q][1]
        /\ HandleStatus(Handle(q, qissued[q][2])) = "Pending"

\* C7: a lost engine stays lost; every alloc, upload, download, transfer,
\* dispatch and wait called on it afterwards fails with DeviceLost and queues
\* nothing; every handle outstanding at the loss resolves to DeviceLost.
C7_DeviceLostSticky ==
    /\ lossSnap.some => lost
    /\ (lastcall.some /\ lastcall.val.lostBefore) =>
           lastcall.val.result = Err(DeviceLost(qengine)) /\ ~lastcall.val.queued
    /\ (wpc = "returned" /\ wreq.val.lostBefore) => wres.val = Err(DeviceLost(qengine))
    /\ lossSnap.some =>
           /\ Outstanding = lossSnap.val
           /\ \A h \in lossSnap.val : HandleStatus(h) = "DeviceLost"

C7_Witness ==
    /\ lost
    /\ lossSnap.val # {}
    /\ lastcall.some /\ lastcall.val.lostBefore /\ lastcall.val.op = "dispatch"
    /\ wpc = "returned" /\ wreq.val.lostBefore

---------------------------------------------------------------------------
(* Properties of indexing inside a kernel.                                 *)

\* C8: indexing a Slice or UnsafeSlice of length len with index i touches
\* only position offset+i, inside the slice's bound range, when i < len, and
\* panics having touched nothing when i >= len.
C8_IndexStaysInRange ==
    ipc = "done" =>
        IF iin.index < iin.len
        THEN /\ iout = Ok(iin.offset + iin.index)
             /\ iacc = {iin.offset + iin.index}
             /\ iacc \subseteq iin.offset..(iin.offset + iin.len - 1)
        ELSE /\ iout.kind = "Panic"
             /\ iacc = {}

C8_Witness ==
    /\ ipc = "done"
    /\ iin.target = "spirv"
    /\ iin.op = "unsafe_index"
    /\ iin.offset = 1
    /\ iin.index = iin.len
    /\ iin.len = 2
    /\ iout.kind = "Panic"

---------------------------------------------------------------------------
(* Properties of Kernel::dispatch.                                         *)

Dispatched == dpc = "dispatched"

NoSubmission == \A e \in Engines : dsub[e] = <<>>

\* The arguments Kernel::dispatch pairs with a slice descriptor.
Paired == 1..Min(Len(din.slices), Len(dkernel.desc.slice_descs))

IsHostArg(i) == ~din.slices[i].device_buffer.some

IsForeignArg(i) ==
    /\ din.slices[i].device_buffer.some
    /\ din.slices[i].device_buffer.val.engine # dkernel.engine

\* Argument i fails one of the debug assertions on its descriptor.
FailsDebugAssert(i) ==
    \/ din.slices[i].scalar_type # dkernel.desc.slice_descs[i].scalar_type
    \/ dkernel.desc.slice_descs[i].mutable /\ ~din.slices[i].mutable

\* The error names the kernel's device and the device of a foreign argument.
NamesBothDevices(result, args) ==
    /\ result.kind = "Err"
    /\ "found" \in DOMAIN result.err
    /\ result.err.expected = RawDevice_fmt(dkernel.engine)
    /\ \E i \in args : result.err.found = RawDevice_fmt(din.slices[i].device_buffer.val.engine)

AllArgs == 1..Len(din.slices)

\* C9 as stated: a dispatch with any slice argument on another engine returns
\* an error naming both devices and submits nothing; one with any host-resident
\* slice argument is rejected and submits nothing.
C9_AnyForeignOrHostArgRejected ==
    Dispatched =>
        /\ (\E i \in AllArgs : IsForeignArg(i)) =>
               NamesBothDevices(dout, {i \in AllArgs : IsForeignArg(i)}) /\ NoSubmission
        /\ (\E i \in AllArgs : IsHostArg(i)) => dout.kind = "Err" /\ NoSubmission

FirstOffender == 
    LET offenders == {i \in Paired : IsHostArg(i) \/ IsForeignArg(i)}
    IN  IF offenders = {} THEN 0 ELSE CHOOSE k \in offenders : \A j \in offenders : k <= j

\* C9, amended: arguments are paired with the slice descriptors by position
\* and surplus arguments are ignored.  If a paired argument is host-resident
\* or on another engine, nothing is submitted and the first such argument
\* decides the outcome: an error naming the kernel's device and the buffer's
\* device if it is on another engine, the error "expected device, found
\* host" if it is host-resident; with debug assertions on, a scalar-type or
\* mutability mismatch at or before that argument panics instead.
C9_FirstOffendingArgRejected ==
    (Dispatched /\ FirstOffender # 0) =>
        LET k == FirstOffender
        IN  /\ NoSubmission
            /\ IF debug /\ \E i \in 1..k : FailsDebugAssert(i)
               THEN dout.kind = "Panic"
               ELSE IF IsForeignArg(k)
               THEN /\ NamesBothDevices(dout, {k})
                    /\ dout.err.slice = dkernel.desc.slice_descs[k].name
               ELSE dout = Err([msg |-> "expected device, found host",
                                kernel |-> dkernel.desc.name,
                                slice |-> dkernel.desc.slice_descs[k].name])

C9_Witness ==
    /\ Dispatched
    /\ Len(din.slices) = 2
    /\ Len(dkernel.desc.slice_descs) = 2
    /\ FirstOffender = 2
    /\ IsForeignArg(2)
    /\ dout.kind = "Err"
    /\ dout.err.expected # dout.err.found
    /\ NoSubmission

\* The group count the dispatch works with has a zero, or its inferred item
\* length is zero.
ZeroWork ==
    LET bound == DispatchSlices(dkernel, din.slices, 1, <<>>, None)
        groups == DispatchGroups(dkernel, bound.val.items)
    IN  /\ IsOk(bound)
        /\ IsOk(groups)
        /\ IsOk(DispatchPushBytes(dkernel, din.push_consts, 1, <<>>))
        /\ \/ \E i \in 1..3 : groups.val[i] = 0
           \/ bound.val.items = Some(USize(0, 0))

\* C10: a dispatch whose inferred item length is 0, or whose group count has a
\* dimension equal to 0, returns success and hands no work to the engine.
C10_ZeroWorkElided ==
    (Dispatched /\ ZeroWork) => IsOk(dout) /\ NoSubmission

\* The paired arguments bound to an item slice descriptor.
ItemArgs == {i \in Paired : dkernel.desc.slice_descs[i].item}

\* The shortest length among the item arguments.
MinItemLen ==
    LET lens == {din.slices[i].len : i \in ItemArgs}
    IN  CHOOSE l \in lens : \A m \in lens : USize_le(l, m)

\* g groups of t threads are the fewest that cover n items: g = ceil(n / t).
Covers(g, t, n) ==
    /\ USize_le(n, USize(0, g * t))
    /\ g = 0 \/ ~USize_le(n, USize(0, (g - 1) * t))

\* Nothing about the slice arguments stops the dispatch.
ArgsAccepted ==
    /\ FirstOffender = 0
    /\ ~(debug /\ \E i \in Paired : FailsDebugAssert(i))

PushAccepted ==
    \/ ~debug
    \/ \A i \in 1..Min(Len(din.push_consts), Len(dkernel.desc.push_descs)) :
           din.push_consts[i].scalar_type = dkernel.desc.push_descs[i].scalar_type

\* The one submission of the run, to the kernel's engine.
Submitted(call) ==
    /\ dsub[dkernel.engine] = <<call>>
    /\ \A e \in Engines \ {dkernel.engine} : dsub[e] = <<>>

\* C13: without explicit groups or global threads, and with an item slice,
\* the group count used is [ceil(L / threads[0]), 1, 1], L the shortest item
\* slice's length, for every length a slice can have; if threads[1] or
\* threads[2] exceeds 1 the dispatch fails with an error instead.
C13_InferredGroups ==
    (Dispatched /\ din.config.kind = "none" /\ ItemArgs # {} /\ ArgsAccepted) =>
        IF \E i \in 2..Len(dkernel.desc.threads) : dkernel.desc.threads[i] > 1
        THEN dout.kind = "Err" /\ NoSubmission
        ELSE PushAccepted =>
                 /\ IsOk(dout)
                 /\ \E call \in {dsub[dkernel.engine][i] : i \in 1..Len(dsub[dkernel.engine])} :
                        /\ Submitted(call)
                        /\ call.groups[2] = 1 /\ call.groups[3] = 1
                        /\ Covers(call.groups[1], dkernel.desc.threads[1], MinItemLen)

\* C16: a dispatch whose argument for slice_descs[i] has another scalar type
\* than the descriptor's, or is immutable where the descriptor is mutable, is
\* rejected with an error and submits nothing, in every build configuration.
C16_MismatchedArgRejected ==
    (Dispatched /\ \E i \in Paired : FailsDebugAssert(i)) =>
        dout.kind = "Err" /\ NoSubmission

\* C17: a dispatch with fewer slice arguments than slice descriptors submits
\* nothing and, nothing else being wrong, fails with an error that names the
\* first missing slice; no submission binds fewer buffers than descriptors.
C17_MissingSliceRejected ==
    Dispatched =>
        /\ Len(din.slices) < Len(dkernel.desc.slice_descs) =>
               /\ NoSubmission
               /\ dout.kind \in {"Err", "Panic"}
               /\ ArgsAccepted =>
                      /\ dout.kind = "Err"
                      /\ "slice" \in DOMAIN dout.err
                      /\ dout.err.slice = dkernel.desc.slice_descs[Len(din.slices) + 1].name
        /\ \A e \in Engines : \A i \in 1..Len(dsub[e]) :
               Len(dsub[e][i].buffers) >= Len(dkernel.desc.slice_descs)

\* ceil(a / b).
CeilDiv(a, b) == CHOOSE g \in 0..a : g * b >= a /\ (g = 0 \/ (g - 1) * b < a)

\* The kernel's workgroup size: the builder's threads after specialization,
\* in the blob's dimensions.
WorkgroupSize == SubSeq(din.builder.threads, 1, Len(din.builder.desc.threads))

ConfiguredBy(kind) == din.config.kind = kind /\ dkernel.groups.some

\* C14: Kernel::global_threads(gt) sets groups[i] = ceil(gt[i] / threads[i])
\* for the dimensions of the kernel's workgroup size after specialization and
\* 1 for the others; Kernel::groups(g) copies g and pads it with 1.
C14_GroupsFromGlobalThreads ==
    /\ ConfiguredBy("global_threads") =>
           \A i \in 1..3 :
               dkernel.groups.val[i] =
                   IF i <= Len(WorkgroupSize)
                   THEN CeilDiv(din.config.val[i], WorkgroupSize[i])
                   ELSE 1
    /\ ConfiguredBy("groups") =>
           \A i \in 1..3 :
               dkernel.groups.val[i] =
                   IF i <= Len(din.config.val) THEN din.config.val[i] ELSE 1

C14_Witness ==
    /\ ConfiguredBy("global_threads")
    /\ dkernel.desc.name = "tile"
    /\ Blobs[din.builder.id].threads = <<2, 2>>
    /\ WorkgroupSize = <<2, 1>>
    /\ din.config.val = <<MaxLen + 1, MaxLen + 1>>
    /\ dkernel.groups.val = <<CeilDiv(MaxLen + 1, 2), MaxLen + 1, 1>>

---------------------------------------------------------------------------
(* The specialize program: a builder is made from a blob and specialized,  *)
(* and the builder that call returns is specialized again.                 *)
(*     let b1 = KernelBuilder::from_bytes(blob)?.specialize(&first)?;      *)
(*     let b2 = b1.specialize(&second)?;                                    *)

\* The values a program passes: zero, two thread counts, a float.
SpecElems == {U32(0), U32(2), U32(4), F32One}

\* The slices of values a call is given, of every length up to MaxSpecs.
SpecSlices == UNION {[1..n -> SpecElems] : n \in 0..MaxSpecs}

SpecializeInputs ==
    [blob : 1..Len(Blobs), first : SpecSlices, second : SpecSlices]

InitSpecialize ==
    /\ debug \in BOOLEAN
    /\ IdleBuffer
    /\ IdleCache
    /\ IdleQueue
    /\ IdleIndex
    /\ IdleDispatch
    /\ IdleDownload
    /\ IdleOwn
    /\ IdleCall
    /\ qengine = 1
    /\ spc = "fresh"
    /\ sin \in SpecializeInputs
    /\ sold = None
    /\ sout = None

\* KernelBuilder::from_bytes(blob)?.specialize(&first).
Specialize ==
    /\ spc = "fresh"
    /\ LET builder == KernelBuilder_from_bytes(sin.blob)
       IN  /\ sold' = Some(builder)
           /\ sout' = KernelBuilder_specialize(builder, sin.first)
    /\ spc' = "once"
    /\ UNCHANGED <<sin, notSpecialize>>

\* b1.specialize(&second), on the builder the first call returned.
Respecialize ==
    /\ spc = "once"
    /\ IsOk(sout)
    /\ sold' = Some(sout.val)
    /\ sout' = KernelBuilder_specialize(sout.val, sin.second)
    /\ spc' = "twice"
    /\ UNCHANGED <<sin, notSpecialize>>

NextSpecialize ==
    \/ Specialize
    \/ Respecialize

SpecSpecialize == InitSpecialize /\ [][NextSpecialize]_vars

\* The values the last call was given.
LastSpecConsts == IF spc = "once" THEN sin.first ELSE sin.second

\* The call was given one value per descriptor, each of the descriptor's type.
WellTyped(spec_descs, spec_consts) ==
    /\ Len(spec_consts) = Len(spec_descs)
    /\ \A i \in 1..Len(spec_descs) : spec_consts[i].scalar_type = spec_descs[i].scalar_type

AxisName(dim) == CASE dim = 0 -> "x" [] dim = 1 -> "y" [] dim = 2 -> "z"

\* The positions whose descriptor sets a thread dimension and whose value is 0.
ZeroThreads(spec_descs, spec_consts) ==
    {i \in 1..Len(spec_descs) : spec_descs[i].thread_dim.some /\ spec_consts[i] = U32(0)}

\* C15: specialize, given one value of the right type per descriptor, fails
\* with an error naming the axis when the value of a thread-dimension
\* descriptor is 0; otherwise it sets that dimension of the work-group size
\* to the value, leaves the other dimensions as they were, and leaves the
\* builder holding exactly the values given, whatever it held before.
C15_SpecializeSetsThreads ==
    (spc \in {"once", "twice"} /\ WellTyped(sold.val.desc.spec_descs, LastSpecConsts)) =>
        LET self == sold.val
            spec_descs == self.desc.spec_descs
            zero == ZeroThreads(spec_descs, LastSpecConsts)
            Set(d) == {i \in 1..Len(spec_descs) : spec_descs[i].thread_dim = Some(d)}
        IN  IF zero # {}
            THEN /\ sout.kind = "Err"
                 /\ sout.err.axis \in {AxisName(spec_descs[i].thread_dim.val) : i \in zero}
            ELSE /\ IsOk(sout)
                 /\ \A d \in 0..2 :
                        IF Set(d) = {}
                        THEN sout.val.threads[d + 1] = self.threads[d + 1]
                        ELSE \E i \in Set(d) :
                                sout.val.threads[d + 1] = U32Value(LastSpecConsts[i])
                 /\ sout.val.spec_consts = LastSpecConsts
                 /\ sout.val.id = self.id
                 /\ sout.val.desc = self.desc

\* The tile kernel, specialized to threads.y = 4 and a float, is specialized
\* again: once with threads.y = 2, which replaces both values, and once with
\* threads.y = 0, which fails naming y.
C15_Witness ==
    /\ spc = "twice"
    /\ sold.val.desc.name = "tile"
    /\ sold.val.threads = <<2, 4, 1>>
    /\ sold.val.spec_consts = <<U32(4), F32One>>
    /\ \/ /\ sin.second = <<U32(2), F32One>>
          /\ sout = Ok([sold.val EXCEPT !.threads = <<2, 2, 1>>,
                                        !.spec_consts = <<U32(2), F32One>>])
       \/ /\ sin.second = <<U32(0), F32One>>
          /\ sout.kind = "Err"
          /\ sout.err.axis = "y"

---------------------------------------------------------------------------
(* Properties of conversions that have nothing to move.                    *)

\* What a raw slice views: its host bytes, or the bytes of its device buffer.
Contents(raw) ==
    IF raw.inner.kind = "Host" THEN SubSeq(raw.inner.slice.mem, 1, raw.inner.slice.len)
    ELSE IF raw.inner.buffer.some THEN raw.inner.buffer.val.data
    ELSE <<>>

\* The raw slice the program's buffer holds before the last operation.
Source == bbuf.val.raw.slice

SameDeviceOps == {"into_same_device", "slice_into_same_device", "to_same_device"}

\* C18: converting a buffer or slice to the device it is already on succeeds,
\* on the host and on a device alike, and a non-empty result is the very
\* storage of the source: the same allocation with the same contents on the
\* same device, neither copied nor transferred.
C18_SameDeviceIsNoOp ==
    (\E op \in SameDeviceOps : EndedWith(op)) =>
        /\ IsOk(bout)
        /\ RawSlice_len(Source) > 0 => bout.val.raw.slice = Source

\* C19: into_buffer of an ArcBuffer held once, and of an owned copy-on-write
\* buffer, returns the buffer itself; into_buffer of an ArcBuffer held more
\* than once, and of a borrowed copy-on-write buffer, returns a buffer on the
\* same device with the same contents in an allocation of its own.
C19_IntoBufferCopiesOnlyWhenShared ==
    /\ (EndedWith("arc_into_buffer_unique") \/ EndedWith("cow_into_buffer_owned")) =>
            bout = bbuf
    /\ (EndedWith("arc_into_buffer_shared") \/ EndedWith("cow_into_buffer_borrowed")) =>
            /\ IsOk(bout)
            /\ bout.val.elem = bbuf.val.elem
            /\ bout.val.raw.slice.device = Source.device
            /\ Contents(bout.val.raw.slice) = Contents(Source)
            /\ (Source.inner.kind = "Host" /\ RawSlice_len(Source) > 0) =>
                    bout.val.raw.slice.inner.slice.ptr # Source.inner.slice.ptr

---------------------------------------------------------------------------
(* Downloads of one device buffer (src/src/buffer.rs 193-201, spec.md 4.1, *)
(* 5).  The user holds handles to the buffer: the buffer itself, slices of *)
(* it.  RawSlice::to_device clones the handle and gives the clone to the   *)
(* engine's download, which queues a copy command and returns a future.    *)
(* The queue worker copies the bytes out later.  Memory whose count has    *)
(* reached zero is released, and released memory can be handed out again.  *)
(* Where the engine keeps the clone it was given is not among the sources: *)
(* it is kept either with the queued command, until the copy has run, or   *)
(* in the future download returned, until the future has completed or is   *)
(* dropped (spec.md 5: "the download future holds a reference to the       *)
(* source buffer until complete").  Both engines are followed.             *)

\* self.inner.clone() on RawSliceInner::Device: one more reference.
RawSliceInner_clone(strong) == strong + 1

\* Dropping a reference to the device buffer.
DeviceBuffer_drop(strong) == strong - 1

\* The memory of a buffer whose count a drop has brought to strong.
MemoryAfterDrop(strong, mem) == IF strong <= 0 /\ mem = "live" THEN "released" ELSE mem

\* The two places an engine can keep the reference a download was given.
Holders == {"command", "future"}

InitDownload ==
    /\ debug = FALSE
    /\ IdleBuffer
    /\ IdleCache
    /\ IdleQueue
    /\ IdleIndex
    /\ IdleDispatch
    /\ IdleSpecialize
    /\ IdleOwn
    /\ IdleCall
    /\ qengine = 1
    /\ xusers = 1
    /\ xrc = 1
    /\ xdl = [k \in Downloads |-> "none"]
    /\ xfut = [k \in Downloads |-> "none"]
    /\ xmem = "live"
    /\ xcopied = [k \in Downloads |-> None]
    /\ xholder \in Holders

\* let slice = buffer.as_slice();
CloneHandle ==
    /\ xusers > 0
    /\ xusers < MaxHandles
    /\ xusers' = xusers + 1
    /\ xrc' = RawSliceInner_clone(xrc)
    /\ UNCHANGED <<xdl, xfut, xmem, xcopied, xholder, notDownload>>

\* drop(handle);
DropHandle ==
    /\ xusers > 0
    /\ xusers' = xusers - 1
    /\ xrc' = DeviceBuffer_drop(xrc)
    /\ xmem' = MemoryAfterDrop(xrc', xmem)
    /\ UNCHANGED <<xdl, xfut, xcopied, xholder, notDownload>>

\* let fut = slice.to_device(Device::host())?;   the device -> host arm: the
\* clone of the handle is moved into the engine's download.
ToHost(k) ==
    /\ xusers > 0
    /\ xdl[k] = "none"
    /\ xrc' = RawSliceInner_clone(xrc)
    /\ xdl' = [xdl EXCEPT ![k] = "queued"]
    /\ xfut' = [xfut EXCEPT ![k] = "pending"]
    /\ UNCHANGED <<xusers, xmem, xcopied, xholder, notDownload>>

\* drop(fut);   the queued copy stays queued.  A future that holds the
\* reference gives it up.
DropFuture(k) ==
    /\ xfut[k] \in {"pending", "ready"}
    /\ xfut' = [xfut EXCEPT ![k] = "dropped"]
    /\ xrc' = IF xholder = "future" THEN DeviceBuffer_drop(xrc) ELSE xrc
    /\ xmem' = MemoryAfterDrop(xrc', xmem)
    /\ UNCHANGED <<xusers, xdl, xcopied, xholder, notDownload>>

\* The queue worker runs the copy: it reads the source memory.  A command
\* that holds the reference gives it up after the copy.
CopyOut(k) ==
    /\ xdl[k] = "queued"
    /\ xcopied' = [xcopied EXCEPT ![k] = Some(IF xmem = "live" THEN "data" ELSE "garbage")]
    /\ xdl' = [xdl EXCEPT ![k] = "copied"]
    /\ xfut' = [xfut EXCEPT ![k] = IF @ = "pending" THEN "ready" ELSE @]
    /\ xrc' = IF xholder = "command" THEN DeviceBuffer_drop(xrc) ELSE xrc
    /\ xmem' = MemoryAfterDrop(xrc', xmem)
    /\ UNCHANGED <<xusers, xholder, notDownload>>

\* let raw = fut.block()?;   the future completes.  A future that holds the
\* reference gives it up.
Await(k) ==
    /\ xfut[k] = "ready"
    /\ xfut' = [xfut EXCEPT ![k] = "taken"]
    /\ xrc' = IF xholder = "future" THEN DeviceBuffer_drop(xrc) ELSE xrc
    /\ xmem' = MemoryAfterDrop(xrc', xmem)
    /\ UNCHANGED <<xusers, xdl, xcopied, xholder, notDownload>>

\* The engine hands released memory to another allocation.
Reuse ==
    /\ xmem = "released"
    /\ xmem' = "reused"
    /\ UNCHANGED <<xusers, xrc, xdl, xfut, xcopied, xholder, notDownload>>

NextDownload ==
    \/ CloneHandle
    \/ DropHandle
    \/ \E k \in Downloads : ToHost(k)
    \/ \E k \in Downloads : DropFuture(k)
    \/ \E k \in Downloads : CopyOut(k)
    \/ \E k \in Downloads : Await(k)
    \/ Reuse

SpecDownload == InitDownload /\ [][NextDownload]_vars

\* The count of the device buffer is the user's handles plus the references
\* the downloads still hold.
HeldByDownloads ==
    Cardinality({k \in Downloads :
        IF xholder = "command" THEN xdl[k] = "queued" ELSE xfut[k] \in {"pending", "ready"}})

CountIsHandlesAndDownloads == xrc = xusers + HeldByDownloads

\* While a download is queued and has not copied out, the count of the
\* device buffer is above zero and its memory is neither released nor
\* reused; a download that has copied out has read the buffer's data; and a
\* download whose future was dropped is still queued or has copied out.
\* This holds of the engine that keeps the reference with the command; the
\* engine that keeps it in the future frees the memory under a queued copy
\* once the future and every handle are dropped.
SourceAliveWhileQueued ==
    \A k \in Downloads :
        /\ xdl[k] = "queued" => (xrc > 0 /\ xmem = "live")
        /\ xdl[k] = "copied" => xcopied[k] = Some("data")
        /\ xfut[k] = "dropped" => xdl[k] \in {"queued", "copied"}

SourceAliveUnderCommand == xholder = "command" => SourceAliveWhileQueued

SourceAliveUnderFuture == xholder = "future" => SourceAliveWhileQueued

\* With the future held, the source is alive under either engine.
SourceAliveWhileFutureHeld ==
    \A k \in Downloads :
        (xdl[k] = "queued" /\ xfut[k] = "pending") => (xrc > 0 /\ xmem = "live")

---------------------------------------------------------------------------
(* Properties of the typed facade: lengths and tags.                       *)

\* C28: for every element type and vector, len() of the buffer made from the
\* vector, on the host or moved to a device, is the number of elements of
\* the vector, and len() of its slice is the same number.
C28_LenCountsElements ==
    EndedWith("len") =>
        /\ bout.val.buffer = Len(bin.vec.elems)
        /\ bout.val.slice = bout.val.buffer

\* The operations of the buffer pipeline that return a typed buffer.
TypedOps ==
    {"alloc", "to_buffer", "to_arc_buffer", "into_same_device", "slice_into_same_device",
     "to_same_device", "arc_into_buffer_unique", "arc_into_buffer_shared",
     "cow_into_buffer_owned", "cow_into_buffer_borrowed"}

\* The operations C24 speaks of.
TaggedOps == TypedOps \cup {"from_vec", "into_device", "into_vec", "to_vec"}

\* The tag of a typed buffer, slice or shared buffer.
TagOf(typed) ==
    IF "arc" \in DOMAIN typed THEN typed.arc.raw.slice.scalar_type
    ELSE Data_as_raw_slice(typed).scalar_type

\* The result is a panic of a scalar-type check.
FailedTagCheck(r) ==
    /\ r.kind = "Panic"
    /\ r.at \in {"assert_eq!(T::scalar_type(), self.scalar_type)",
                  "debug_assert_eq!(raw.scalar_type, T::scalar_type())"}

\* C24: along from_vec, alloc, as_slice, to_buffer, into_buffer,
\* to_arc_buffer, to_device / into_device and to_vec, every typed buffer of
\* element type T carries the tag of T, and no operation stops at a
\* scalar-type check.
C24_TagMatchesElementType ==
    /\ (bbuf # None) =>
            /\ ~FailedTagCheck(bbuf)
            /\ IsOk(bbuf) => TagOf(bbuf.val) = bin.elem
    /\ (bpc = "done" /\ \A i \in 1..Len(bpath) : bpath[i] \in TaggedOps) =>
            /\ ~FailedTagCheck(bout)
            /\ (IsOk(bout) /\ bpath[Len(bpath)] \in TypedOps) =>
                    /\ TagOf(bout.val) = bin.elem
                    /\ bout.val.elem = bin.elem

---------------------------------------------------------------------------
(* Ownership of host allocations.  The program makes a raw buffer from a   *)
(* vector or by alloc, takes slices of it, copies it with to_raw_buffer,   *)
(* turns buffers into vectors and drops what it holds, in any order the    *)
(* borrow rules allow: a buffer is moved or dropped only when no slice of  *)
(* it is held.                                                             *)

OwnInputs ==
    { [elem |-> t, vec |-> Vec(Allocation("vec"), s, c), how |-> h] :
        t \in ScalarTypes, h \in {"from_vec", "alloc"},
        s \in UNION {SeqsUpTo(ElemVals(u), MaxLen) : u \in ScalarTypes},
        c \in 0..(MaxLen + 1) }

\* What the allocator handed out for a vector of n elements with capacity c.
Created(ptr, n, c, width) == IF c = 0 THEN {} ELSE {Allocated(ptr, n, c, width)}

\* ofreed with the release r, when there is one.
Released(r) == IF r.some THEN Append(ofreed, r.val) ELSE ofreed

InitOwn ==
    /\ debug = FALSE
    /\ IdleBuffer
    /\ IdleCache
    /\ IdleQueue
    /\ IdleIndex
    /\ IdleDispatch
    /\ IdleSpecialize
    /\ IdleDownload
    /\ IdleCall
    /\ qengine = 1
    /\ opc = "start"
    /\ oin \in { i \in OwnInputs :
                   /\ i.vec.elems \in SeqsUpTo(ElemVals(i.elem), MaxLen)
                   /\ i.vec.cap \in {Len(i.vec.elems), Len(i.vec.elems) + 1} }
    /\ obuf = None
    /\ ocopy = None
    /\ oviews = 0
    /\ ovec = None
    /\ oallocs = {}
    /\ ofreed = <<>>

\* let raw = RawBuffer::from_vec(v);
OwnFromVec ==
    /\ opc = "start"
    /\ oin.how = "from_vec"
    /\ obuf' = Some(RawBuffer_from_vec(oin.elem, oin.vec))
    /\ oallocs' = Created(oin.vec.ptr, Len(oin.vec.elems), oin.vec.cap,
                          ScalarTypeSize(oin.elem))
    /\ opc' = "run"
    /\ UNCHANGED <<oin, ocopy, oviews, ovec, ofreed, notOwn>>

\* let raw = unsafe { RawBuffer::alloc(Device::host(), T::scalar_type(), n)? };
OwnAlloc ==
    /\ opc = "start"
    /\ oin.how = "alloc"
    /\ LET n == Len(oin.vec.elems)
       IN  /\ obuf' = Some(RawBuffer_alloc(HostDevice, oin.elem, n).val)
           /\ oallocs' = Created(Allocation("alloc"), n, n, ScalarTypeSize(oin.elem))
    /\ opc' = "run"
    /\ UNCHANGED <<oin, ocopy, oviews, ovec, ofreed, notOwn>>

\* let slice = raw.clone();   (a RawSlice of the buffer, as as_slice makes)
OwnAsSlice ==
    /\ opc = "run"
    /\ obuf.some
    /\ oviews < MaxHandles
    /\ oviews' = oviews + 1
    /\ UNCHANGED <<opc, oin, obuf, ocopy, ovec, oallocs, ofreed, notOwn>>

\* drop(slice);
OwnDropSlice ==
    /\ opc = "run"
    /\ oviews > 0
    /\ oviews' = oviews - 1
    /\ ofreed' = Released(RawSlice_drop(obuf.val.slice))
    /\ UNCHANGED <<opc, oin, obuf, ocopy, ovec, oallocs, notOwn>>

\* let copy = raw.to_raw_buffer();   once: the copy is a new allocation.
OwnToRawBuffer ==
    /\ opc = "run"
    /\ obuf.some
    /\ ocopy = None
    /\ \A a \in oallocs : a.ptr # CopyOf(obuf.val.slice.inner.slice.ptr)
    /\ LET r == RawSlice_to_raw_buffer(obuf.val.slice)
           n == Len(oin.vec.elems)
       IN  IF IsOk(r)
           THEN /\ ocopy' = Some(r.val)
                /\ oallocs' = oallocs \cup Created(CopyOf(obuf.val.slice.inner.slice.ptr), n, n,
                                                   ScalarTypeSize(oin.elem))
           ELSE UNCHANGED <<ocopy, oallocs>>
    /\ UNCHANGED <<opc, oin, obuf, oviews, ovec, ofreed, notOwn>>

\* let v = raw.into_vec::<T>();   raw is dropped as into_vec returns.
OwnIntoVec ==
    /\ opc = "run"
    /\ obuf.some
    /\ oviews = 0
    /\ ovec = None
    /\ \E t \in {obuf.val.slice.scalar_type, "U8"} :
          LET r == RawBuffer_into_vec(obuf.val, t)
          IN  /\ ovec' = IF IsOk(r) THEN Some(r.val) ELSE None
              /\ ofreed' = Released(RawBuffer_drop(RawBuffer_into_vec_self(obuf.val, t)))
    /\ obuf' = None
    /\ UNCHANGED <<opc, oin, ocopy, oviews, oallocs, notOwn>>

\* let v = copy.into_vec::<U>();   for U the unsigned type the copy is tagged with.
OwnCopyIntoVec ==
    /\ opc = "run"
    /\ ocopy.some
    /\ ovec = None
    /\ LET t == ocopy.val.slice.scalar_type
           r == RawBuffer_into_vec(ocopy.val, t)
       IN  /\ ovec' = IF IsOk(r) THEN Some(r.val) ELSE None
           /\ ofreed' = Released(RawBuffer_drop(RawBuffer_into_vec_self(ocopy.val, t)))
    /\ ocopy' = None
    /\ UNCHANGED <<opc, oin, obuf, oviews, oallocs, notOwn>>

\* drop(raw);
OwnDropBuffer ==
    /\ opc = "run"
    /\ obuf.some
    /\ oviews = 0
    /\ ofreed' = Released(RawBuffer_drop(obuf.val))
    /\ obuf' = None
    /\ UNCHANGED <<opc, oin, ocopy, oviews, ovec, oallocs, notOwn>>

\* drop(copy);
OwnDropCopy ==
    /\ opc = "run"
    /\ ocopy.some
    /\ ofreed' = Released(RawBuffer_drop(ocopy.val))
    /\ ocopy' = None
    /\ UNCHANGED <<opc, oin, obuf, oviews, ovec, oallocs, notOwn>>

\* drop(v);
OwnDropVec ==
    /\ opc = "run"
    /\ ovec.some
    /\ ofreed' = Released(Vec_drop(ovec.val.ptr, Len(ovec.val.elems), ovec.val.cap,
                                   ScalarTypeSize(oin.elem)))
    /\ ovec' = None
    /\ UNCHANGED <<opc, oin, obuf, ocopy, oviews, oallocs, notOwn>>

NextOwn ==
    \/ OwnFromVec
    \/ OwnAlloc
    \/ OwnAsSlice
    \/ OwnDropSlice
    \/ OwnToRawBuffer
    \/ OwnIntoVec
    \/ OwnCopyIntoVec
    \/ OwnDropBuffer
    \/ OwnDropCopy
    \/ OwnDropVec

SpecOwn == InitOwn /\ [][NextOwn]_vars

\* The addresses released so far.
FreedPtrs == {ofreed[i].ptr : i \in 1..Len(ofreed)}

\* The allocations the program still owns, through a buffer or a vector.
OwnedPtrs ==
    {b.val.slice.inner.slice.ptr : b \in {x \in {obuf, ocopy} : x.some /\ x.val.cap > 0}}
        \cup {v.val.ptr : v \in {x \in {ovec} : x.some /\ x.val.cap > 0}}

\* C27: no host allocation is released twice; every release is of an
\* allocation the program made, with the element count, capacity and width
\* it was made with; an allocation a buffer or a returned Vec still owns is
\* not released, whatever slices were taken and dropped; and once the
\* program holds nothing, every allocation it made has been released.
C27_ReleasedExactlyOnce ==
    /\ \A i, j \in 1..Len(ofreed) : ofreed[i].ptr = ofreed[j].ptr => i = j
    /\ \A i \in 1..Len(ofreed) : ofreed[i] \in oallocs
    /\ OwnedPtrs \cap FreedPtrs = {}
    /\ (opc = "run" /\ obuf = None /\ ocopy = None /\ ovec = None) =>
            {ofreed[i] : i \in 1..Len(ofreed)} = oallocs

\* A buffer with spare capacity was copied and turned into a Vec, slices of
\* it came and went, and the Vec and the copy were dropped: two allocations,
\* two releases, the Vec's first.
C27_Witness ==
    /\ opc = "run"
    /\ obuf = None
    /\ ocopy = None
    /\ ovec = None
    /\ oin.how = "from_vec"
    /\ oin.vec.cap > Len(oin.vec.elems)
    /\ Len(ofreed) = 2
    /\ ofreed[1] = Allocated(oin.vec.ptr, Len(oin.vec.elems), oin.vec.cap,
                             ScalarTypeSize(oin.elem))
    /\ ofreed[2].ptr = CopyOf(oin.vec.ptr)

---------------------------------------------------------------------------
(* The size of the push-constant block: push_consts_range on descriptors   *)
(* with up to MaxPush push constants of every width and up to MaxSlices    *)
(* slices.                                                                 *)

RangeInputs ==
    { KernelDesc("k", <<1>>, <<>>,
                 [i \in 1..n |-> SliceDesc(<<"x", "y", "z", "w">>[i], "F32", TRUE, FALSE)],
                 [i \in 1..Len(ts) |-> PushDesc(<<"a", "b", "c", "d">>[i], ts[i])]) :
        n \in 0..MaxSlices, ts \in SeqsUpTo({"U8", "F16", "U32", "F64"}, MaxPush) }

InitRange ==
    /\ debug = FALSE
    /\ IdleBuffer
    /\ IdleCache
    /\ IdleQueue
    /\ IdleIndex
    /\ IdleDispatch
    /\ IdleSpecialize
    /\ IdleDownload
    /\ IdleOwn
    /\ qengine = 1
    /\ cpc = "start"
    /\ cin \in RangeInputs
    /\ cout = <<>>

\* let range = desc.push_consts_range();
PushConstsRange ==
    /\ cpc = "start"
    /\ cout' = <<KernelDesc_push_consts_range(cin)>>
    /\ cpc' = "done"
    /\ UNCHANGED <<cin, notCall>>

NextRange ==
    \/ PushConstsRange

SpecRange == InitRange /\ [][NextRange]_vars

\* The sum of the byte widths of the first n push descriptors.
RECURSIVE WidthsUpTo(_, _)
WidthsUpTo(push_descs, n) ==
    IF n = 0 THEN 0
    ELSE WidthsUpTo(push_descs, n - 1) + ScalarTypeSize(push_descs[n].scalar_type)

\* C25: push_consts_range returns ceil(S / 4) * 4 + 8 * n, for S the sum of
\* the byte sizes of the push descriptors' scalar types and n the number
\* of slice descriptors.
C25_PushConstsRange ==
    (cpc = "done" /\ Len(cout) = 1 /\ cin \in RangeInputs) =>
        LET S == WidthsUpTo(cin.push_descs, Len(cin.push_descs))
            n == Len(cin.slice_descs)
        IN  cout[1] = ((S + 3) \div 4) * 4 + 8 * n

\* Push constants of 1, 2 and 8 bytes and two slices: S = 11, the range 28.
C25_Witness ==
    /\ cpc = "done"
    /\ cin \in RangeInputs
    /\ Len(cin.push_descs) = 3
    /\ WidthsUpTo(cin.push_descs, 3) = 11
    /\ Len(cin.slice_descs) = 2
    /\ cout = <<28>>

---------------------------------------------------------------------------
(* Cache keys of specialized builders.  Two builders are made from the same *)
(* blob, each specialized with its own values, and built one after the     *)
(* other on one engine, whose cache (spec.md 4.1) returns the pipeline     *)
(* stored under the key or builds and stores one.                          *)

\* 2.0f32.
F32Two == ScalarElem("F32", <<0, 0, 0, 64>>)

KeyElems == SpecElems \cup {F32Two}

KeySlices == UNION {[1..n -> KeyElems] : n \in 0..MaxSpecs}

KeyInputs == [blob : 1..Len(Blobs), first : KeySlices, second : KeySlices]

InitKey ==
    /\ debug = FALSE
    /\ IdleBuffer
    /\ IdleCache
    /\ IdleQueue
    /\ IdleIndex
    /\ IdleDispatch
    /\ IdleSpecialize
    /\ IdleDownload
    /\ IdleOwn
    /\ qengine = 1
    /\ cpc = "start"
    /\ cin \in KeyInputs
    /\ cout = <<>>

\* KernelBuilder::from_bytes(blob)?.specialize(&spec_consts)?.build(device),
\* the engine's cached being a lookup that builds on a miss.
BuildSpecialized(spec_consts) ==
    LET b == KernelBuilder_specialize(KernelBuilder_from_bytes(cin.blob), spec_consts)
        r == KernelBuilder_build_request(b.val, DeviceOf(qengine))
    IN  IF ~IsOk(b)
        THEN /\ cout' = Append(cout, b)
             /\ UNCHANGED <<cache, buildlog>>
        ELSE IF ~IsOk(r)
        THEN /\ cout' = Append(cout, r)
             /\ UNCHANGED <<cache, buildlog>>
        ELSE IF IsCached(r.val.engine, r.val.key)
        THEN /\ cout' = Append(cout, Ok([key |-> r.val.key, how |-> "hit",
                    pipeline |-> (CHOOSE c \in CacheEntry(r.val.engine, r.val.key) : TRUE).pipeline]))
             /\ UNCHANGED <<cache, buildlog>>
        ELSE LET pipeline == NewPipeline(KernelBuilder_desc_fn(r.val.builder))
             IN  /\ cout' = Append(cout, Ok([key |-> r.val.key, how |-> "built",
                                             pipeline |-> pipeline]))
                 /\ cache' = [cache EXCEPT ![r.val.engine] =
                                 @ \cup {[key |-> r.val.key, pipeline |-> pipeline]}]
                 /\ buildlog' = Append(buildlog, [engine |-> r.val.engine, key |-> r.val.key,
                                                  pipeline |-> pipeline])

\* The first builder is specialized and built.
BuildFirst ==
    /\ cpc = "start"
    /\ BuildSpecialized(cin.first)
    /\ cpc' = "one"
    /\ UNCHANGED <<cin, debug, bufferVars, building, tpc, treq, tres, returns, ncalls,
                   queueVars, indexVars, dispatchVars, specializeVars, downloadVars, ownVars>>

\* A fresh builder from the same blob is specialized and built.
BuildSecond ==
    /\ cpc = "one"
    /\ BuildSpecialized(cin.second)
    /\ cpc' = "two"
    /\ UNCHANGED <<cin, debug, bufferVars, building, tpc, treq, tres, returns, ncalls,
                   queueVars, indexVars, dispatchVars, specializeVars, downloadVars, ownVars>>

NextKey ==
    \/ BuildFirst
    \/ BuildSecond

SpecKey == InitKey /\ [][NextKey]_vars

\* The bytes of the first n values, one value after another.
RECURSIVE BytesUpTo(_, _)
BytesUpTo(spec_consts, n) ==
    IF n = 0 THEN <<>> ELSE BytesUpTo(spec_consts, n - 1) \o spec_consts[n].bytes

\* The two slices hold the same bits at every position.
BitwiseEqual(x, y) ==
    /\ Len(x) = Len(y)
    /\ \A i \in 1..Len(x) : x[i].bytes = y[i].bytes

\* C23: the key of a build is the blob's identity with the bytes of the
\* builder's specialization values in order; two builders made from the
\* same blob have equal keys exactly when their values are bitwise equal
\* position by position; the second build hits the cache and returns the
\* first build's pipeline when they are, and builds another pipeline when
\* they are not.
C23_KeyIsBlobAndValueBytes ==
    /\ (Len(cout) >= 1 /\ IsOk(cout[1])) =>
            cout[1].val.key = KernelKey(cin.blob, BytesUpTo(cin.first, Len(cin.first)))
    /\ (Len(cout) = 2 /\ IsOk(cout[2])) =>
            cout[2].val.key = KernelKey(cin.blob, BytesUpTo(cin.second, Len(cin.second)))
    /\ (Len(cout) = 2 /\ IsOk(cout[1]) /\ IsOk(cout[2])) =>
            /\ (cout[1].val.key = cout[2].val.key) <=> BitwiseEqual(cin.first, cin.second)
            /\ (cout[2].val.how = "hit") <=> BitwiseEqual(cin.first, cin.second)
            /\ (cout[2].val.pipeline = cout[1].val.pipeline)
                    <=> BitwiseEqual(cin.first, cin.second)

\* Two builders of the two-constant kernel whose values differ in the
\* second position only: the second build misses.
C23_Witness ==
    /\ cpc = "two"
    /\ Len(cin.first) = 2
    /\ Len(cin.second) = 2
    /\ cin.first[1] = cin.second[1]
    /\ cin.first[2] # cin.second[2]
    /\ IsOk(cout[1])
    /\ IsOk(cout[2])
    /\ cout[2].val.how = "built"
    /\ Len(buildlog) = 2

---------------------------------------------------------------------------
(* The SPIR-V specializer.  A descriptor whose module holds up to MaxConsts *)
(* specialization constants, of one or two literal words, decorated with a *)
(* SpecId or not, is specialized twice with the same threads and values.   *)

\* A constant of the module: its number of literal words and the SpecId
\* its result id is decorated with, if any.
ConstShapes == [lits : 1..2, spec_id : {None} \cup {Some(i) : i \in 0..MaxSpecs}]

ConstId(k) == Word(10 + k)

\* The literal words constant k is compiled with.
DefaultLiterals(shapes) ==
    [k \in 1..Len(shapes) |-> [j \in 1..shapes[k].lits |-> Word(100 * j + k)]]

\* The module with one OpSpecConstant per shape holding the given literal
\* words, a decoration that is no SpecId, and the SpecId decorations.
ModuleOf(shapes, literals) ==
    LET decorated == SelectSeq([k \in 1..Len(shapes) |-> k], LAMBDA k : shapes[k].spec_id.some)
    IN  [header |-> SpirvHeader(11 + Len(shapes)),
         annotations |->
            <<Instruction(OpDecorate, None, None, <<IdRef(ConstId(1)), Decoration(Word(0))>>)>>
            \o [i \in 1..Len(decorated) |->
                    Instruction(OpDecorate, None, None,
                                <<IdRef(ConstId(decorated[i])), Decoration(Word(DecorationSpecId)),
                                  LiteralInt32(Word(shapes[decorated[i]].spec_id.val))>>)],
         types_global_values |->
            [k \in 1..Len(shapes) |->
                Instruction(OpSpecConstant, Some(Word(shapes[k].lits)), Some(ConstId(k)),
                            [j \in 1..shapes[k].lits |-> LiteralInt32(literals[k][j])])]]

\* The descriptor with the SPIR-V words it was compiled to.
WithSpirv(desc, spirv) ==
    [f \in DOMAIN desc \cup {"spirv"} |-> IF f = "spirv" THEN spirv ELSE desc[f]]

U64Value == ScalarElem("U64", <<1, 2, 3, 4, 5, 6, 7, 8>>)
U8Value == ScalarElem("U8", <<7>>)

SpirvElems == {U32(2), F32One, U64Value, U8Value}

SpirvInputs ==
    { [shapes |-> sh,
       orig |-> WithSpirv(Blobs[3], Module_assemble(ModuleOf(sh, DefaultLiterals(sh)))),
       desc |-> WithSpirv(Blobs[3], Module_assemble(ModuleOf(sh, DefaultLiterals(sh)))),
       threads |-> <<4, 2>>,
       spec_consts |-> vs] :
        sh \in SeqsUpTo(ConstShapes, MaxConsts), vs \in SeqsUpTo(SpirvElems, MaxSpecs) }

InitSpirv ==
    /\ debug = FALSE
    /\ IdleBuffer
    /\ IdleCache
    /\ IdleQueue
    /\ IdleIndex
    /\ IdleDispatch
    /\ IdleSpecialize
    /\ IdleDownload
    /\ IdleOwn
    /\ qengine = 1
    /\ cpc = "start"
    /\ cin \in SpirvInputs
    /\ cout = <<>>

\* desc.specialize(threads.clone(), &spec_consts), the panic caught.
SpecializeCall(from, to) ==
    /\ cpc = from
    /\ LET f == KernelDesc_specialize_body(cin.desc, cin.threads, cin.spec_consts)
       IN  /\ cout' = Append(cout, f.ret.val)
           /\ cin' = [cin EXCEPT !.desc = f.self]
    /\ cpc' = to
    /\ UNCHANGED notCall

SpecializeFirst == SpecializeCall("start", "one")

SpecializeAgain == SpecializeCall("one", "two")

NextSpirv ==
    \/ SpecializeFirst
    \/ SpecializeAgain

SpecSpirv == InitSpirv /\ [][NextSpirv]_vars

Provided(k) ==
    LET spec_id == cin.shapes[k].spec_id
    IN  IF spec_id.some /\ spec_id.val < Len(cin.spec_consts)
        THEN Some(cin.spec_consts[spec_id.val + 1])
        ELSE None

\* Every provided value has four bytes per literal word of its constant.
ValuesFit ==
    \A k \in 1..Len(cin.shapes) :
        Provided(k).some => Len(Provided(k).val.bytes) = 4 * cin.shapes[k].lits

\* The literal words the module is to hold after the call: the value's
\* bytes 0..4 and 4..8 for a constant with a provided value, the words it
\* had otherwise.
RewrittenLiterals ==
    [k \in 1..Len(cin.shapes) |->
        IF Provided(k).some
        THEN [j \in 1..cin.shapes[k].lits |-> SubSeq(Provided(k).val.bytes, 4 * j - 3, 4 * j)]
        ELSE DefaultLiterals(cin.shapes)[k]]

\* C22: when values of the constants' widths are provided, specialize
\* completes without panicking and returns the module with every constant
\* that has a provided value holding the value's bytes 0..4 in its first
\* literal and, if it has two, bytes 4..8 in its second, the other
\* constants being left as they were.
C22_LiteralsRewritten ==
    (cpc \in {"one", "two"} /\ ValuesFit) =>
        /\ IsOk(cout[1])
        /\ cout[1].val.spirv = Module_assemble(ModuleOf(cin.shapes, RewrittenLiterals))

---------------------------------------------------------------------------
(* The dispatch builder, src/src/kernel.rs.  The kernel's RawKernelInfo    *)
(* with its SliceInfo and PushInfo comes from krnl-core's raw_module, and  *)
(* the device buffer of a slice with its offset() and pad() from the       *)
(* engine (spec.md 3, 4.1).                                                *)

\* A name: `base`, or "__krnl" followed by more and ending in `base`.
Name(base) == [internal |-> FALSE, base |-> base]
KrnlName(base) == [internal |-> TRUE, base |-> base]

\* name.starts_with("__krnl").
starts_with_krnl(name) == name.internal

\* name.ends_with(suffix), for the name of a slice as suffix: no base here
\* is the end of another.
ends_with(name, suffix) == name.base = suffix.base

SliceInfo(name, scalar_type, mutability, elementwise) ==
    [name |-> name, scalar_type |-> scalar_type, mutability |-> mutability,
     elementwise |-> elementwise]

PushInfo(name, scalar_type, offset) ==
    [name |-> name, scalar_type |-> scalar_type, offset |-> offset]

RawKernelInfo(name, elementwise, threads, slice_infos, push_infos, num_push_words) ==
    [name |-> name, elementwise |-> elementwise, threads |-> threads,
     slice_infos |-> slice_infos, push_infos |-> push_infos,
     num_push_words |-> num_push_words]

NamedArg(name, arg) == [name |-> name, arg |-> arg]

\* SliceArg::Slice(raw) and SliceArg::SliceMut(raw), raw a slice of len
\* elements with the device buffer it has, if it is on a device.
SliceArg(variant, len, device_buffer) ==
    [variant |-> variant, len |-> len, device_buffer |-> device_buffer]

\* An engine's buffer, with its offset() and pad() in bytes.
EngineBuffer(offset, pad) == [offset |-> offset, pad |-> pad]

DispatchDim(dim) == [dim |-> [i \in 1..3 |-> IF i <= Len(dim) THEN dim[i] ELSE 1],
                     ndim |-> Len(dim)]

\* The position of the first element of seq that passes Test, or 0.
FindFirst(seq, Test(_)) ==
    LET found == {i \in 1..Len(seq) : Test(seq[i])}
    IN  IF found = {} THEN 0 ELSE CHOOSE i \in found : \A j \in found : i <= j

\* a | b on unsigned integers.
RECURSIVE BitOr(_, _)
BitOr(a, b) ==
    IF a = 0 THEN b
    ELSE IF b = 0 THEN a
    ELSE (IF a % 2 = 1 \/ b % 2 = 1 THEN 1 ELSE 0) + 2 * BitOr(a \div 2, b \div 2)

\* x.to_ne_bytes() of a u32 on a little-endian host.
U32_to_ne_bytes(x) == U32(x).bytes

\* (x << 8).to_ne_bytes() of a u32: the top byte is shifted out.
U32_shl8(x) == <<0, x % 256, (x \div 256) % 256, (x \div 65536) % 256>>

\* The bytes of a | b from the bytes of the two u32.
U32_or(a, b) == [i \in 1..4 |-> BitOr(a[i], b[i])]

\* bytes[offset..offset + len].copy_from_slice(src).
WriteBytes(bytes, offset, src) ==
    IF offset + Len(src) > Len(bytes) THEN Panic("range end index out of range")
    ELSE Ok([i \in 1..Len(bytes) |->
                IF i > offset /\ i <= offset + Len(src) THEN src[i - offset] ELSE bytes[i]])

\* write_scalar_elem_to_bytes(scalar_elem, bytes): bytes as the call leaves
\* them; only u32 values are written.
write_scalar_elem_to_bytes(scalar_elem, bytes) ==
    IF scalar_elem.scalar_type = "U32"
    THEN copy_from_slice(bytes, Ok(scalar_elem.bytes))
    ELSE Panic("todo!()")

\* The elementwise length build_unsafe starts with.
ElementwiseLen(self) ==
    LET info == self.info
        ei == FindFirst(info.slice_infos, LAMBDA x : x.elementwise)
        si == IF ei = 0 THEN 0
              ELSE FindFirst(self.slices, LAMBDA x : x.name = info.slice_infos[ei].name)
    IN  IF ~info.elementwise THEN None
        ELSE IF si = 0 THEN Some(0)
        ELSE Some(self.slices[si].arg.len)

CeilGroups(n, t) == (n \div t) + (IF n % t # 0 THEN 1 ELSE 0)

\* The groups build_unsafe computes, or the error it returns.
BuildGroups(self) ==
    LET info == self.info
        threads == info.threads
    IN  IF self.dim.some
        THEN IF info.elementwise
             THEN Err([msg |-> "Can not specify in elementwise kernel", name |-> self.dim.val.kind])
             ELSE IF self.dim.val.dim.ndim # Len(threads)
             THEN Err([msg |-> "Expected ndim dimensional", name |-> self.dim.val.kind])
             ELSE IF self.dim.val.kind = "global_threads"
             THEN Ok([i \in 1..3 |->
                        IF i <= Len(threads)
                        THEN CeilGroups(self.dim.val.dim.dim[i], threads[i])
                        ELSE 1])
             ELSE Ok(self.dim.val.dim.dim)
        ELSE IF ~info.elementwise
        THEN Err([msg |-> "Expected global_threads or groups", name |-> info.name])
        ELSE Ok(<<CeilGroups(ElementwiseLen(self).val, threads[1]), 1, 1>>)

\* The check made when more slices are supplied than the kernel has.
SurplusSlices(self) ==
    LET unknown == FindFirst(self.slices,
                       LAMBDA slice : FindFirst(self.info.slice_infos,
                                          LAMBDA x : x.name = slice.name) = 0)
    IN  IF unknown # 0
        THEN Err([msg |-> "Unexpected slice", name |-> self.slices[unknown].name])
        ELSE Panic("unreachable!()")

\* The loop over slice_infos from position i on: the push-constant bytes
\* and the buffers it leaves, or the first failure.
RECURSIVE BuildSlices(_, _, _, _, _)
BuildSlices(self, groups, i, push_consts_bytes, buffers) ==
    IF i > Len(self.info.slice_infos)
    THEN Ok([push_consts_bytes |-> push_consts_bytes, buffers |-> buffers])
    ELSE
    LET slice_info == self.info.slice_infos[i]
        si == FindFirst(self.slices, LAMBDA x : x.name = slice_info.name)
        slice == self.slices[si].arg
    IN  IF si = 0 THEN Err([msg |-> "Expected slice", name |-> slice_info.name])
        ELSE IF slice.variant = "Slice" /\ slice_info.mutability = "Mutable"
        THEN Err([msg |-> "Expected .slice_mut()", name |-> slice_info.name])
        ELSE IF slice.variant = "SliceMut" /\ slice_info.mutability = "Immutable"
        THEN Err([msg |-> "Expected .slice()", name |-> slice_info.name])
        ELSE IF slice_info.elementwise /\ slice.len # ElementwiseLen(self).val
        THEN Err([msg |-> "Expected elementwise slice to have len", name |-> slice_info.name])
        ELSE IF slice.len = 0
        THEN IF \A g \in 1..3 : groups[g] # 0
             THEN Err([msg |-> "Slice is empty", name |-> slice_info.name])
             ELSE BuildSlices(self, groups, i + 1, push_consts_bytes, buffers)
        ELSE IF ~slice.device_buffer.some THEN Panic("device_buffer().unwrap()")
        ELSE
        LET buffer == slice.device_buffer.val
            width == ScalarTypeSize(slice_info.scalar_type)
            offset == buffer.offset \div width
            pad == buffer.pad \div width
            offset_pad == U32_or(U32_shl8(offset), U32_to_ne_bytes(pad))
            pi == FindFirst(self.info.push_infos,
                      LAMBDA x : starts_with_krnl(x.name) /\ ends_with(x.name, slice_info.name))
            written == WriteBytes(push_consts_bytes, self.info.push_infos[pi].offset,
                                  offset_pad)
        IN  IF pi = 0 THEN Panic("find(..).unwrap()")
            ELSE IF ~IsOk(written) THEN written
            ELSE BuildSlices(self, groups, i + 1, written.val, Append(buffers, buffer))

\* The check made when more pushes are supplied than the kernel declares.
SurplusPushes(self) ==
    LET missing == FindFirst(self.info.push_infos,
                       LAMBDA push_info : FindFirst(self.push_consts,
                                              LAMBDA x : x.name = push_info.name) = 0)
    IN  IF missing # 0
        THEN Err([msg |-> "Expected push", name |-> self.info.push_infos[missing].name])
        ELSE Panic("unreachable!()")

\* The loop over the supplied pushes from position i on.
RECURSIVE BuildPushes(_, _, _)
BuildPushes(self, i, push_consts_bytes) ==
    IF i > Len(self.push_consts) THEN Ok(push_consts_bytes)
    ELSE
    LET push == self.push_consts[i]
        pi == FindFirst(self.info.push_infos, LAMBDA x : x.name = push.name)
        push_info == self.info.push_infos[pi]
        offset == push_info.offset
        end == offset + ScalarTypeSize(push.arg.scalar_type)
        \* &mut push_consts_bytes[offset..offset + push_ty.size()] is taken
        \* before the call is made
        written == write_scalar_elem_to_bytes(push.arg,
                                              SubSeq(push_consts_bytes, offset + 1, end))
    IN  IF pi = 0 THEN Err([msg |-> "Unexpected push", name |-> push.name])
        ELSE IF push.arg.scalar_type # push_info.scalar_type
        THEN Err([msg |-> "Expected push to have scalar type", name |-> push.name])
        ELSE IF end > Len(push_consts_bytes) THEN Panic("range end index out of range")
        ELSE IF ~IsOk(written) THEN written
        ELSE BuildPushes(self, i + 1, WriteBytes(push_consts_bytes, offset, written.val).val)

\* DispatchBuilder::build_unsafe(self).
DispatchBuilder_build_unsafe(self) ==
    LET info == self.info
        groups == BuildGroups(self)
        zeros == [i \in 1..(4 * info.num_push_words) |-> 0]
        sliced == BuildSlices(self, groups.val, 1, zeros, <<>>)
        num_push_consts ==
            Cardinality({i \in 1..Len(info.push_infos) : ~starts_with_krnl(info.push_infos[i].name)})
        pushed == BuildPushes(self, 1, sliced.val.push_consts_bytes)
    IN  IF ~IsOk(groups) THEN groups
        ELSE IF Len(self.slices) > Len(info.slice_infos) THEN SurplusSlices(self)
        ELSE IF ~IsOk(sliced) THEN sliced
        ELSE IF Len(self.push_consts) > num_push_consts THEN SurplusPushes(self)
        ELSE IF ~IsOk(pushed) THEN pushed
        ELSE Ok([compute |->
                    IF \A g \in 1..3 : groups.val[g] # 0
                    THEN Some([groups |-> groups.val, buffers |-> sliced.val.buffers,
                               push_consts |-> pushed.val])
                    ELSE None])

\* The kernels of the program: an elementwise one with a u32 push constant,
\* one with an f32 push constant, and one without slices.
KernelInfos ==
    { RawKernelInfo("axpy", TRUE, <<2>>,
                    <<SliceInfo(Name("x"), "F32", "Immutable", TRUE),
                      SliceInfo(Name("y"), "F32", "Mutable", TRUE)>>,
                    <<PushInfo(Name("a"), "U32", 0), PushInfo(KrnlName("x"), "U32", 4),
                      PushInfo(KrnlName("y"), "U32", 8)>>, 3),
      RawKernelInfo("fill", FALSE, <<2>>,
                    <<SliceInfo(Name("y"), "U32", "Mutable", FALSE)>>,
                    <<PushInfo(Name("b"), "F32", 0), PushInfo(KrnlName("y"), "U32", 4)>>, 2),
      RawKernelInfo("nop", FALSE, <<2>>, <<>>, <<PushInfo(Name("a"), "U32", 0)>>, 1) }

BuildDims ==
    {None} \cup {Some([kind |-> k, dim |-> DispatchDim(d)]) :
                    k \in {"global_threads", "groups"}, d \in {<<0>>, <<3>>, <<3, 1>>}}

\* Slices of 0 and 2 elements: on a device at the start of its memory, at
\* byte 8 with a pad of 4 bytes, and 2^24 four-byte elements into it; and
\* one on the host.
BuildSliceArgs ==
    { NamedArg(Name(n), SliceArg(v, s[1], s[2])) :
        n \in {"x", "y"}, v \in {"Slice", "SliceMut"},
        s \in {<<0, Some(EngineBuffer(0, 0))>>, <<2, Some(EngineBuffer(8, 4))>>, <<2, None>>,
               <<2, Some(EngineBuffer(4 * 16777216, 0))>>} }

BuildPushArgs ==
    { NamedArg(n, v) : n \in {Name("a"), Name("b"), KrnlName("y")}, v \in {U32(2), F32One} }

BuildInputs ==
    [info : KernelInfos, dim : BuildDims, slices : SeqsUpTo(BuildSliceArgs, MaxSliceArgs),
     push_consts : SeqsUpTo(BuildPushArgs, MaxPushArgs)]

InitBuild ==
    /\ debug = FALSE
    /\ IdleBuffer
    /\ IdleCache
    /\ IdleQueue
    /\ IdleIndex
    /\ IdleDispatch
    /\ IdleSpecialize
    /\ IdleDownload
    /\ IdleOwn
    /\ qengine = 1
    /\ cpc = "start"
    /\ cin \in BuildInputs
    /\ cout = <<>>

\* let dispatch = unsafe { builder.build_unsafe() };  the panic caught.
BuildUnsafe ==
    /\ cpc = "start"
    /\ cout' = <<DispatchBuilder_build_unsafe(cin)>>
    /\ cpc' = "done"
    /\ UNCHANGED <<cin, notCall>>

NextBuild ==
    \/ BuildUnsafe

SpecBuild == InitBuild /\ [][NextBuild]_vars

\* The push constants the kernel declares, the internal per-slice words
\* excluded, that the call supplies no value for.
MissingPushes ==
    {cin.info.push_infos[i].name : i \in
        {j \in 1..Len(cin.info.push_infos) :
            /\ ~starts_with_krnl(cin.info.push_infos[j].name)
            /\ \A k \in 1..Len(cin.push_consts) :
                   cin.push_consts[k].name # cin.info.push_infos[j].name}}

\* C29: a build that does not supply every push constant the kernel
\* declares does not return a dispatch, and when it fails over its push
\* constants the error names a missing one.
C29_MissingPushRejected ==
    (cpc = "done" /\ cin \in BuildInputs /\ MissingPushes # {}) =>
        /\ ~IsOk(cout[1])
        /\ (cout[1].kind = "Err" /\ cout[1].err.msg = "Expected push") =>
                cout[1].err.name \in MissingPushes

\* C30: build_unsafe returns Ok or Err for every combination of slice and
\* push arguments: it does not panic.
C30_BuildUnsafeIsTotal ==
    (cpc = "done" /\ cin \in BuildInputs) => cout[1].kind \in {"Ok", "Err"}

\* The slices of the call that build_unsafe bound: those whose buffers the
\* returned dispatch holds, by position in slice_infos.
BoundSlices ==
    {i \in 1..Len(cin.info.slice_infos) :
        LET si == FindFirst(cin.slices, LAMBDA x : x.name = cin.info.slice_infos[i].name)
        IN  si # 0 /\ cin.slices[si].arg.len # 0}

\* The 32-bit word of slice i in the push constants of the dispatch.
OffsetPadWord(i) ==
    LET pi == FindFirst(cin.info.push_infos,
                  LAMBDA x : starts_with_krnl(x.name) /\ ends_with(x.name, cin.info.slice_infos[i].name))
        at == cin.info.push_infos[pi].offset
    IN  SubSeq(cout[1].val.compute.val.push_consts, at + 1, at + 4)

\* C26: for every device slice bound in a dispatch, the offset in elements
\* is below 2^24, the pad in elements is below 2^8, and the word written
\* for it decodes to that offset (its upper 24 bits) and pad (its low 8).
C26_OffsetPadDecodes ==
    (cpc = "done" /\ cin \in BuildInputs /\ IsOk(cout[1]) /\ cout[1].val.compute.some) =>
        \A i \in BoundSlices :
            LET si == FindFirst(cin.slices, LAMBDA x : x.name = cin.info.slice_infos[i].name)
                buffer == cin.slices[si].arg.device_buffer.val
                width == ScalarTypeSize(cin.info.slice_infos[i].scalar_type)
                word == OffsetPadWord(i)
            IN  /\ buffer.offset \div width < 16777216
                /\ buffer.pad \div width < 256
                /\ word[1] = buffer.pad \div width
                /\ word[2] + 256 * word[3] + 65536 * word[4] = buffer.offset \div width

====
